---- MODULE Spec2Model ----
(***************************************************************************)
(* Batch execution engine of the transcoder addon: BatchAbortRegistry and   *)
(* BatchWorker (batch_worker.py), the cooperative abort poll of             *)
(* _execute_ffmpeg (transcoder.py) and is_aborted (utils.py).               *)
(*                                                                         *)
(* Two threads: the worker thread runs BatchWorker.run, the owner (UI)      *)
(* thread runs BatchWorker.abort.  Every statement of run/abort that reads  *)
(* or writes state shared between the two threads is a step of its own, so  *)
(* every interleaving the interpreter can produce is explored.              *)
(***************************************************************************)
EXTENDS Integers, FiniteSets, Sequences, TLC

\* ---------------------------------------------------------------- bounds
NumCandidates == 3
NumSongs == 2
MaxTicks == 1
NumManagers == 2
MaxClock == 2
NumCachePaths == 2
NumAudioFiles == 2

\* ------------------------------------------------------------- constants
\* The Abort button is disabled by its first confirmed click, so abort() is
\* called at most once per run.
AbortCallsPerRun == 1
NoSong == 0
NoThread == 0

Candidates == 1..NumCandidates
SongIds == 1..NumSongs
Keys == SongIds \cup {NoSong}
Threads == {1, 2}

FinalStatuses == {"success", "failed", "aborted", "skipped"}

VARIABLES
    song_id,            \* candidate.song_id, per list position
    selected,           \* candidate.selected
    on_video_success,   \* TRUE iff a success callback was passed to the worker
    status,             \* candidate.status
    error_message,      \* candidate.error_message
    result,             \* candidate.result (kind of the TranscodeResult stored)
    abort_requested,    \* BatchWorker._abort_requested
    current_song_id,    \* BatchWorker._current_song_id
    abort_flags,        \* BatchAbortRegistry._abort_flags
    pc,                 \* position of the worker thread in run()
    i,                  \* loop index of run()
    ticks,              \* progress lines read by the current _execute_ffmpeg
    ret,                \* local variable result of run(): what process_video returned
    pcA,                \* position of the owner thread in abort()
    abort_arg,          \* argument evaluated for set_abort in abort()
    abortCalls,         \* number of abort() calls begun
    batch_completed,    \* number of batch_completed emissions
    batch_aborted,      \* number of batch_aborted emissions
    outcome,            \* history: how processing of each candidate ended
    flagAtPoll,         \* history: registry flag seen set at a poll of the candidate
    abortPoint,         \* history: index whose per-candidate check observed the abort
    abortActive,        \* history: candidate that was active when abort() began
    abortSetIds,        \* history: keys written by abort()
    jobAbortSeen,       \* history: a download job was read with abort set
    flags_lock,         \* BatchAbortRegistry._flags_lock holder
    regOp,              \* registry call in progress, per thread
    regRet,             \* last value returned by BatchAbortRegistry.is_aborted
    lastMut,            \* history: last mutation applied to each key
    same_path,          \* input: the transcoded file keeps the name of the original
    backup_original,    \* input: cfg.general.backup_original
    output_path,        \* candidate.result.output_path (NoPath if None)
    bi,                 \* RollbackBackupWorker.run: loop index
    fs,                 \* file system: content of every path (NoFile if absent)
    dir_exists,         \* file system: the rollback temp directory exists
    rollback_dir,       \* RollbackManager._rollback_dir
    entries,            \* RollbackManager.entries
    manifest,           \* number of entries in the manifest file last written
    rb_pc,              \* position of the caller inside the RollbackManager
    rb_k,               \* rollback_all: entries still to visit (reversed iteration)
    rb_success,         \* rollback_all: local success
    rb_failed,          \* rollback_all: local failed
    successful_ids,     \* rollback_all: local successful_ids
    attempts,           \* history: entry positions in the order rollback_all visited them
    restored,           \* history: entry positions rollback_all counted as success
    last_op,            \* history: the last RollbackManager method called
    rmtree_result,      \* history: what the last _cleanup_rollback_directory did
    opc,                \* position of the owner thread in _execute_batch
    rollback_enabled,   \* summary.rollback_enabled
    rollback_manager,   \* orchestrator.rollback_manager is set
    abort_flag,         \* orchestrator._abort_flag
    existing_user_backups,  \* orchestrator._existing_user_backups (its keys)
    backup_success,     \* orchestrator._backup_success
    backup_abort_requested, \* _backup_abort_requested and the backup worker's flag
    bpc,                \* state of the backup worker and of its signal
    had_user_backup,    \* history: candidates with a user backup before the run
    rollback_reply,     \* history: the user's answer to the rollback question
    clock,              \* time.time(), in whole seconds
    rollback_dirs,      \* RollbackManager._rollback_dir of each concurrent run
    temp_root,          \* the usdb_syncer_transcoder directory: backups held by each rollback_<timestamp>
    wiz_stack,          \* run_wizard: the step functions being executed, innermost last
    wiz_return,         \* what run_wizard returned
    process_audio,      \* BatchWizardState.process_audio
    process_video,      \* BatchWizardState.process_video
    verify_normalization, \* BatchWizardState.verify_normalization
    scan_results,       \* BatchWizardState.scan_results: empty, videos only, or with audio files
    analysis_results,   \* BatchWizardState.analysis_results: the verification results by file
    cancelled_at,       \* history: the step at which the user cancelled
    completed,          \* history: the steps whose dialog was accepted
    loudnorm_analysis,  \* LoudnessCache: the rows of the table loudnorm_analysis
    valid_song_ids,     \* the ids of the songs USDB Syncer knows
    existing_paths,     \* file system: the cached paths that exist
    prune_result,       \* what prune_orphans returned
    rows_before,        \* history: the rows before prune_orphans
    video_started,      \* history: video_started emissions for each candidate
    video_completed,    \* history: video_completed emissions for each candidate
    callback_calls,     \* history: calls of on_video_success for each candidate
    analysis_pc,        \* AnalysisWorker and its dialog: idle, running, signal emitted, how the dialog ended
    analysis_i,         \* AnalysisWorker.run: the index of the loop over audio_files
    worker_results,     \* AnalysisWorker._results
    analysis_abort_requested, \* AnalysisWorker._abort_requested
    needs_processing,   \* the audio ScanResults with needs_processing set
    force_audio_transcode \* BatchWizardState.force_audio_transcode

vars == <<song_id, selected, on_video_success, status, error_message, result,
          abort_requested, current_song_id, abort_flags, pc, i, ticks, ret,
          pcA, abort_arg, abortCalls, batch_completed, batch_aborted,
          outcome, flagAtPoll, abortPoint, abortActive, abortSetIds, jobAbortSeen,
          flags_lock, regOp, regRet, lastMut,
          same_path, backup_original, output_path, bi, fs, dir_exists, rollback_dir, entries,
          manifest, rb_pc, rb_k, rb_success, rb_failed, successful_ids,
          attempts, restored, last_op, rmtree_result,
          opc, rollback_enabled, rollback_manager, abort_flag,
          existing_user_backups, backup_success, backup_abort_requested, bpc,
          had_user_backup, rollback_reply,
          clock, rollback_dirs, temp_root,
          wiz_stack, wiz_return, process_audio, process_video, verify_normalization,
          scan_results, analysis_results, cancelled_at, completed,
          loudnorm_analysis, valid_song_ids, existing_paths, prune_result, rows_before,
          video_started, video_completed, callback_calls,
          analysis_pc, analysis_i, worker_results, analysis_abort_requested,
          needs_processing, force_audio_transcode>>

inputVars == <<song_id, selected, on_video_success>>
candVars == <<status, error_message, result>>
ownerVars == <<pcA, abort_arg, abortCalls>>
signalVars == <<batch_completed, batch_aborted>>
histVars == <<outcome, flagAtPoll, abortPoint, abortActive, abortSetIds, jobAbortSeen>>
regVars == <<flags_lock, regOp, regRet, lastMut>>
fsVars == <<fs, dir_exists>>
managerVars == <<rollback_dir, entries, manifest>>
rollbackAllVars == <<rb_k, rb_success, rb_failed, successful_ids, attempts, restored>>
cleanupVars == <<last_op, rmtree_result>>
cfgVars == <<same_path, backup_original>>
rbVars == <<cfgVars, output_path, bi, fsVars, managerVars, rb_pc, rollbackAllVars, cleanupVars>>
backupVars == <<backup_success, backup_abort_requested, bpc>>
orchVars == <<opc, rollback_enabled, rollback_manager, abort_flag,
              existing_user_backups, backupVars, had_user_backup, rollback_reply>>
isoVars == <<clock, rollback_dirs, temp_root>>
wizStateVars == <<process_audio, process_video, verify_normalization, scan_results, analysis_results>>
wizHistVars == <<cancelled_at, completed>>
wizVars == <<wiz_stack, wiz_return, wizStateVars, wizHistVars>>
cacheVars == <<loudnorm_analysis, valid_song_ids, existing_paths, prune_result, rows_before>>
itemVars == <<video_started, video_completed, callback_calls>>
anWorkerVars == <<analysis_pc, analysis_i, worker_results, analysis_abort_requested>>
anVars == <<anWorkerVars, needs_processing, force_audio_transcode>>
extVars == <<isoVars, wizVars, cacheVars, itemVars, anVars>>
workerVars == <<inputVars, candVars, abort_requested, current_song_id, abort_flags,
                pc, i, ticks, ret, ownerVars, signalVars, histVars, regVars>>

\* ------------------------------------------------- BatchAbortRegistry
EmptyFlags == [k \in {} |-> TRUE]

\* Mutant of set_abort: toggles the flag instead of setting it.
set_abort_toggle(flags, id) ==
    IF id \in DOMAIN flags
    THEN [k \in DOMAIN flags \ {id} |-> flags[k]]
    ELSE [k \in DOMAIN flags \cup {id} |-> IF k = id THEN TRUE ELSE flags[k]]

\* self._abort_flags[song_id] = True
set_abort(flags, id) ==
    [k \in DOMAIN flags \cup {id} |-> IF k = id THEN TRUE ELSE flags[k]]

\* self._abort_flags.get(song_id, False)
registry_is_aborted(flags, id) ==
    IF id \in DOMAIN flags THEN flags[id] ELSE FALSE

\* self._abort_flags.pop(song_id, None)
clear(flags, id) ==
    [k \in DOMAIN flags \ {id} |-> flags[k]]

\* self._abort_flags.clear()
clear_all(flags) == EmptyFlags

\* ------------------------------------------------------ utils.is_aborted
\* The download jobs belong to the host application: what DownloadManager
\* holds for a song is not state of this program, so each read of job.abort
\* yields either value.  job is the value read.

\* Mutant of is_aborted: consults the download job only.
is_aborted_job_only(job, id) == job

is_aborted(job, id) ==
    \/ job
    \/ registry_is_aborted(abort_flags, id)

\* ------------------------------------------------------------ initial state
\* Song ids are opaque keys (only compared for equality), so candidate lists
\* are enumerated up to renaming: ids are numbered in order of first occurrence.
\* Two candidates may share a song id (the audio and the video of one song).
FirstOccurrenceOrder(f) ==
    \A k \in Candidates : \A id \in 1..(f[k] - 1) : \E j \in 1..(k - 1) : f[j] = id

\* ------------------------------------------------------- paths and files
\* A path is a tuple; a file holds a revision of one candidate's media:
\* "orig" before the run, "new" once transcoded, "old" an earlier revision.
NoFile == <<0, "none">>
NoPath == <<"none", 0>>
NoDir == 0
TempDir == 1
Revisions == {"orig", "new", "old", "partial"}
Contents == (Candidates \X Revisions) \cup {NoFile}

\* candidate.video_path
video_path(c) == <<"media", c>>

\* final_path = video_path.with_suffix(new_ext)
final_path(c) == IF same_path[c] THEN video_path(c) ELSE <<"output", c>>

\* path.with_name(stem + backup_suffix + suffix)
user_backup_path(path) == <<"user_backup", path[2]>>

\* self._rollback_dir / f"video_{song_id}_{stem}{suffix}"
get_rollback_backup_path(id, original_path) == <<"rollback", id, original_path[2]>>

Paths ==
    UNION {{video_path(c), <<"output", c>>, user_backup_path(video_path(c))} :
               c \in Candidates}
      \cup {<<"rollback", id, n>> : id \in SongIds, n \in Candidates}

InTempDir(path) == path[1] = "rollback"

\* the state of a run that has no Rollback Manager
RollbackIdle ==
    /\ rollback_dir = NoDir
    /\ entries = <<>>
    /\ manifest = 0
    /\ rb_pc = "idle"
    /\ rb_k = 0
    /\ rb_success = 0
    /\ rb_failed = 0
    /\ successful_ids = <<>>
    /\ attempts = <<>>
    /\ restored = {}
    /\ last_op = "none"
    /\ rmtree_result = "none"

\* the state of the orchestrator before _execute_batch
OrchestratorIdle ==
    /\ opc = "start"
    /\ rollback_manager = FALSE
    /\ abort_flag = FALSE
    /\ existing_user_backups = {}
    /\ backup_success = FALSE
    /\ backup_abort_requested = FALSE
    /\ bpc = "not_started"
    /\ rollback_reply = "none"

\* no second run: the clock stands at 0 and the temp root is empty
Managers == 1..NumManagers
Timestamps == 0..MaxClock
NoTimestamp == MaxClock + 1
Absent == {0}

IsolationIdle ==
    /\ clock = 0
    /\ rollback_dirs = [m \in Managers |-> NoTimestamp]
    /\ temp_root = [t \in Timestamps |-> Absent]

\* BatchWizardState() before run_wizard
WizardIdle ==
    /\ wiz_stack = <<>>
    /\ wiz_return = "not_called"
    /\ process_audio = FALSE
    /\ process_video = FALSE
    /\ verify_normalization = FALSE
    /\ scan_results = "empty"
    /\ analysis_results = {}
    /\ cancelled_at = "none"
    /\ completed = {}

\* an empty cache
CacheIdle ==
    /\ loudnorm_analysis = {}
    /\ valid_song_ids = {}
    /\ existing_paths = {}
    /\ prune_result = "not_called"
    /\ rows_before = {}

\* no signal emitted and no callback made
ItemIdle ==
    /\ video_started = [c \in Candidates |-> 0]
    /\ video_completed = [c \in Candidates |-> 0]
    /\ callback_calls = [c \in Candidates |-> 0]

\* no analysis worker, no audio file scanned
AnalysisIdle ==
    /\ analysis_pc = "idle"
    /\ analysis_i = 1
    /\ worker_results = {}
    /\ analysis_abort_requested = FALSE
    /\ needs_processing = {}
    /\ force_audio_transcode = FALSE

ExtIdle == IsolationIdle /\ WizardIdle /\ CacheIdle /\ ItemIdle /\ AnalysisIdle

\* the library before a run: every candidate's media file holds its original,
\* and the candidates in `backed` have a user backup of an earlier revision
FilesBeforeRun(backed) ==
    [path \in Paths |->
        CASE path[1] = "media" -> <<path[2], "orig">>
          [] path[1] = "user_backup" /\ path[2] \in backed -> <<path[2], "old">>
          [] OTHER -> NoFile]

WorkerInit ==
    /\ song_id \in {f \in [Candidates -> SongIds] : FirstOccurrenceOrder(f)}
    /\ selected \in [Candidates -> BOOLEAN]
    /\ on_video_success \in BOOLEAN
    /\ status = [c \in Candidates |-> "pending"]
    /\ error_message = [c \in Candidates |-> "None"]
    /\ result = [c \in Candidates |-> "None"]
    /\ abort_requested = FALSE
    /\ current_song_id = NoSong
    /\ abort_flags = EmptyFlags
    /\ pc = "connect"
    /\ i = 1
    /\ ticks = 0
    /\ ret = "None"
    /\ pcA = "idle"
    /\ abort_arg = NoSong
    /\ abortCalls = 0
    /\ batch_completed = 0
    /\ batch_aborted = 0
    /\ outcome = [c \in Candidates |-> "none"]
    /\ flagAtPoll = [c \in Candidates |-> FALSE]
    /\ abortPoint = 0
    /\ abortActive = 0
    /\ abortSetIds = {}
    /\ jobAbortSeen = FALSE
    /\ flags_lock = NoThread
    /\ regOp = [t \in Threads |-> <<"idle", NoSong>>]
    /\ regRet = FALSE
    /\ lastMut = [k \in Keys |-> "never"]

Init ==
    /\ WorkerInit
    /\ RollbackIdle
    /\ same_path = [c \in Candidates |-> TRUE]
    /\ backup_original = FALSE
    /\ output_path = [c \in Candidates |-> NoPath]
    /\ bi = 1
    /\ fs = FilesBeforeRun({})
    /\ dir_exists = FALSE
    /\ OrchestratorIdle
    /\ ExtIdle
    /\ rollback_enabled = FALSE
    /\ had_user_backup = {}

\* ------------------------------------------------------ BatchWorker.run
\* signal.emit for the candidate c, or a call counted for it
Emit(count, c) == [count EXCEPT ![c] = @ + 1]

\* Mutant of MarkRemaining: marks every remaining candidate aborted.
MarkRemainingAllAborted(st, from) ==
    [k \in Candidates |->
        IF k >= from /\ st[k] = "pending" THEN "aborted" ELSE st[k]]

\* Mutant of MarkRemaining: the slice starts one candidate too late.
MarkRemainingOffByOne(st, from) ==
    [k \in Candidates |->
        IF k > from /\ st[k] = "pending"
        THEN (IF selected[k] THEN "aborted" ELSE "skipped")
        ELSE st[k]]

\* for remaining in self.candidates[i:]: pending -> aborted / skipped
MarkRemaining(st, from) ==
    [k \in Candidates |->
        IF k >= from /\ st[k] = "pending"
        THEN (IF selected[k] THEN "aborted" ELSE "skipped")
        ELSE st[k]]

\* db.connect and the log line before the loop
Connect ==
    /\ pc = "connect"
    /\ pc' = "check_req"
    /\ UNCHANGED <<inputVars, candVars, abort_requested, current_song_id, abort_flags,
                   i, ticks, ret, ownerVars, signalVars, histVars, regVars, rbVars, extVars, orchVars>>

\* left operand of the per-candidate check: self._abort_requested is False
CheckAbortRequested ==
    /\ pc = "check_req"
    /\ i <= NumCandidates
    /\ ~abort_requested
    /\ pc' = "check_flag"
    /\ UNCHANGED <<inputVars, candVars, abort_requested, current_song_id, abort_flags,
                   i, ticks, ret, ownerVars, signalVars, histVars, regVars, rbVars, extVars, orchVars>>

\* the abort branch: mark the remaining candidates, emit batch_aborted, return
AbortStep ==
    /\ \/ pc = "check_req" /\ i <= NumCandidates /\ abort_requested
                          /\ UNCHANGED jobAbortSeen
       \/ /\ pc = "check_flag"
          /\ \E job \in BOOLEAN :
                /\ is_aborted(job, song_id[i])
                /\ jobAbortSeen' = (jobAbortSeen \/ job)
    /\ status' = MarkRemaining(status, i)
    /\ batch_aborted' = batch_aborted + 1
    /\ abortPoint' = i
    /\ pc' = "clear_all"
    /\ UNCHANGED <<inputVars, error_message, result, abort_requested, current_song_id,
                   abort_flags, i, ticks, ret, ownerVars, batch_completed,
                   outcome, flagAtPoll, abortActive, abortSetIds, regVars, rbVars, extVars, orchVars>>

\* Mutant of SkipUnselected: the unselected candidate is transcoded like a
\* selected one.
SkipUnselectedEncodes ==
    /\ pc = "check_flag"
    /\ ~is_aborted(FALSE, song_id[i])
    /\ ~selected[i]
    /\ status' = [status EXCEPT ![i] = "transcoding"]
    /\ video_started' = Emit(video_started, i)
    /\ pc' = "set_current"
    /\ UNCHANGED <<inputVars, error_message, result, abort_requested, current_song_id,
                   abort_flags, i, ticks, ret, ownerVars, signalVars, histVars, regVars,
                   rbVars, isoVars, wizVars, cacheVars, anVars, video_completed, callback_calls,
                   orchVars>>

\* if not candidate.selected: status = "skipped"; continue
SkipUnselected ==
    /\ pc = "check_flag"
    /\ ~is_aborted(FALSE, song_id[i])
    /\ ~selected[i]
    /\ status' = [status EXCEPT ![i] = "skipped"]
    /\ i' = i + 1
    /\ pc' = "check_req"
    /\ UNCHANGED <<inputVars, error_message, result, abort_requested, current_song_id,
                   abort_flags, ticks, ret, ownerVars, signalVars, histVars, regVars, rbVars, extVars, orchVars>>

\* candidate.status = "transcoding"; video_started.emit
BeginItem ==
    /\ pc = "check_flag"
    /\ ~is_aborted(FALSE, song_id[i])
    /\ selected[i]
    /\ status' = [status EXCEPT ![i] = "transcoding"]
    /\ video_started' = Emit(video_started, i)
    /\ pc' = "set_current"
    /\ UNCHANGED <<inputVars, error_message, result, abort_requested, current_song_id,
                   abort_flags, i, ticks, ret, ownerVars, signalVars, histVars, regVars, rbVars, isoVars, wizVars, cacheVars, anVars, video_completed, callback_calls, orchVars>>

\* self._current_song_id = candidate.song_id
SetCurrent ==
    /\ pc = "set_current"
    /\ current_song_id' = song_id[i]
    /\ pc' = "get_song"
    /\ UNCHANGED <<inputVars, candVars, abort_requested, abort_flags, i, ticks,
                   ret, ownerVars, signalVars, histVars, regVars, rbVars, extVars, orchVars>>

\* song = UsdbSong.get(...); a missing song raises ValueError
GetSong ==
    /\ pc = "get_song"
    /\ \E found \in BOOLEAN :
          IF found
          THEN pc' = "process_video" /\ UNCHANGED outcome
          ELSE pc' = "except" /\ outcome' = [outcome EXCEPT ![i] = "raised"]
    /\ UNCHANGED <<inputVars, candVars, abort_requested, current_song_id, abort_flags,
                   i, ticks, ret, ownerVars, signalVars, flagAtPoll, abortPoint,
                   abortActive, abortSetIds, jobAbortSeen, regVars, rbVars, extVars, orchVars>>

\* process_video up to the call of _execute_ffmpeg: an early failure result, an
\* early success (already in the target format), or the encode is started
ProcessVideoStart ==
    /\ pc = "process_video"
    /\ \E early \in {"failed", "success", "encode"} :
          IF early = "encode"
          THEN pc' = "poll" /\ UNCHANGED ret
          ELSE pc' = "interpret" /\ ret' = early
    /\ UNCHANGED <<inputVars, candVars, abort_requested, current_song_id, abort_flags,
                   i, ticks, ownerVars, signalVars, histVars, regVars, rbVars, extVars, orchVars>>

\* _execute_ffmpeg: the abort check at the top of the read loop
Poll ==
    /\ pc = "poll"
    /\ flagAtPoll' = [flagAtPoll EXCEPT
                          ![i] = @ \/ registry_is_aborted(abort_flags, song_id[i])]
    /\ \E job \in BOOLEAN :
          /\ jobAbortSeen' = (jobAbortSeen \/ job)
          /\ IF is_aborted(job, song_id[i])
             THEN pc' = "interpret" /\ ret' = "aborted"
             ELSE pc' = "readline" /\ UNCHANGED ret
    /\ UNCHANGED <<inputVars, candVars, abort_requested, current_song_id, abort_flags,
                   i, ticks, ownerVars, signalVars, outcome, abortPoint,
                   abortActive, abortSetIds, regVars, rbVars, extVars, orchVars>>

\* _execute_ffmpeg: a progress line was read, the loop goes round
ReadProgressLine ==
    /\ pc = "readline"
    /\ ticks < MaxTicks
    /\ ticks' = ticks + 1
    /\ pc' = "poll"
    /\ UNCHANGED <<inputVars, candVars, abort_requested, current_song_id, abort_flags,
                   i, ret, ownerVars, signalVars, histVars, regVars, rbVars, extVars, orchVars>>

\* _execute_ffmpeg ends without a further poll: exit code 0 (then verification
\* and the move into place), a non-zero exit code or the timeout, or an
\* exception raised out of process_video
EncodeFinished ==
    /\ pc = "readline"
    /\ \E how \in {"success", "failed", "raise"} :
          IF how = "raise"
          THEN pc' = "except" /\ outcome' = [outcome EXCEPT ![i] = "raised"]
                              /\ UNCHANGED ret
          ELSE pc' = "interpret" /\ ret' = how /\ UNCHANGED outcome
    /\ UNCHANGED <<inputVars, candVars, abort_requested, current_song_id, abort_flags,
                   i, ticks, ownerVars, signalVars, flagAtPoll, abortPoint,
                   abortActive, abortSetIds, jobAbortSeen, regVars, rbVars, extVars, orchVars>>

\* Mutant of InterpretResult: the callback is made whatever the result says.
InterpretResultCallsBackAlways ==
    /\ pc = "interpret"
    /\ result' = [result EXCEPT ![i] = ret]
    /\ outcome' = [outcome EXCEPT ![i] = ret]
    /\ status' = [status EXCEPT ![i] = ret]
    /\ error_message' = [error_message EXCEPT
                             ![i] = IF ret = "failed" THEN "result.error_message" ELSE @]
    /\ pc' = IF on_video_success THEN "callback" ELSE "clear_item"
    /\ video_completed' = IF on_video_success
                        THEN video_completed ELSE Emit(video_completed, i)
    /\ UNCHANGED <<inputVars, abort_requested, current_song_id, abort_flags,
                   i, ticks, ret, ownerVars, signalVars, flagAtPoll, abortPoint,
                   abortActive, abortSetIds, jobAbortSeen, regVars, rbVars, isoVars, wizVars, cacheVars, anVars, video_started, callback_calls, orchVars>>

\* candidate.result = result; the status is set from the result; without a
\* callback to make, video_completed is emitted
InterpretResult ==
    /\ pc = "interpret"
    /\ result' = [result EXCEPT ![i] = ret]
    /\ outcome' = [outcome EXCEPT ![i] = ret]
    /\ status' = [status EXCEPT ![i] = ret]
    /\ error_message' = [error_message EXCEPT
                             ![i] = IF ret = "failed" THEN "result.error_message" ELSE @]
    /\ pc' = IF ret = "success" /\ on_video_success THEN "callback" ELSE "clear_item"
    /\ video_completed' = IF ret = "success" /\ on_video_success
                        THEN video_completed ELSE Emit(video_completed, i)
    /\ UNCHANGED <<inputVars, abort_requested, current_song_id, abort_flags,
                   i, ticks, ret, ownerVars, signalVars, flagAtPoll, abortPoint,
                   abortActive, abortSetIds, jobAbortSeen, regVars, rbVars, isoVars, wizVars, cacheVars, anVars, video_started, callback_calls, orchVars>>

\* self.on_video_success(candidate): the callback returns, and
\* video_completed is emitted, or raises
Callback ==
    /\ pc = "callback"
    /\ \E raises \in BOOLEAN :
          IF raises
          THEN /\ pc' = "except"
               /\ outcome' = [outcome EXCEPT ![i] = "callback_raised"]
               /\ UNCHANGED video_completed
          ELSE /\ pc' = "clear_item"
               /\ video_completed' = Emit(video_completed, i)
               /\ UNCHANGED outcome
    /\ callback_calls' = Emit(callback_calls, i)
    /\ UNCHANGED <<inputVars, candVars, abort_requested, current_song_id, abort_flags,
                   i, ticks, ret, ownerVars, signalVars, flagAtPoll, abortPoint,
                   abortActive, abortSetIds, jobAbortSeen, regVars, rbVars, isoVars, wizVars, cacheVars, anVars, video_started, orchVars>>

\* Mutant of HandleException: the exception ends the run.
HandleExceptionStops ==
    /\ pc = "except"
    /\ status' = [status EXCEPT ![i] = "failed"]
    /\ error_message' = [error_message EXCEPT ![i] = "str(e)"]
    /\ video_completed' = Emit(video_completed, i)
    /\ pc' = "clear_all"
    /\ UNCHANGED <<inputVars, result, abort_requested, current_song_id, abort_flags,
                   i, ticks, ret, ownerVars, signalVars, histVars, regVars, rbVars, isoVars, wizVars, cacheVars, anVars, video_started, callback_calls, orchVars>>

\* Mutant of HandleException: the failure is recorded in error_message only,
\* the status stays transcoding.
HandleExceptionKeepsStatus ==
    /\ pc = "except"
    /\ error_message' = [error_message EXCEPT ![i] = "str(e)"]
    /\ video_completed' = Emit(video_completed, i)
    /\ pc' = "clear_item"
    /\ UNCHANGED <<inputVars, status, result, abort_requested, current_song_id,
                   abort_flags, i, ticks, ret, ownerVars, signalVars, histVars, regVars, rbVars, isoVars, wizVars, cacheVars, anVars, video_started, callback_calls, orchVars>>

\* except Exception: status = "failed", error_message = str(e), and
\* video_completed is emitted with a dummy failed result
HandleException ==
    /\ pc = "except"
    /\ status' = [status EXCEPT ![i] = "failed"]
    /\ error_message' = [error_message EXCEPT ![i] = "str(e)"]
    /\ video_completed' = Emit(video_completed, i)
    /\ pc' = "clear_item"
    /\ UNCHANGED <<inputVars, result, abort_requested, current_song_id, abort_flags,
                   i, ticks, ret, ownerVars, signalVars, histVars, regVars, rbVars, isoVars, wizVars, cacheVars, anVars, video_started, callback_calls, orchVars>>

\* finally: BatchAbortRegistry.instance().clear(candidate.song_id)
ClearItem ==
    /\ pc = "clear_item"
    /\ abort_flags' = clear(abort_flags, song_id[i])
    /\ pc' = "reset_current"
    /\ UNCHANGED <<inputVars, candVars, abort_requested, current_song_id, i,
                   ticks, ret, ownerVars, signalVars, histVars, regVars, rbVars, extVars, orchVars>>

\* finally: self._current_song_id = None; next iteration
ResetCurrent ==
    /\ pc = "reset_current"
    /\ current_song_id' = NoSong
    /\ i' = i + 1
    /\ ticks' = 0
    /\ ret' = "None"
    /\ pc' = "check_req"
    /\ UNCHANGED <<inputVars, candVars, abort_requested, abort_flags,
                   ownerVars, signalVars, histVars, regVars, rbVars, extVars, orchVars>>

\* the loop ran off the end of the list: batch_completed.emit()
LoopEnd ==
    /\ pc = "check_req"
    /\ i > NumCandidates
    /\ batch_completed' = batch_completed + 1
    /\ pc' = "clear_all"
    /\ UNCHANGED <<inputVars, candVars, abort_requested, current_song_id, abort_flags,
                   i, ticks, ret, ownerVars, batch_aborted, histVars, regVars, rbVars, extVars, orchVars>>

\* outer finally: BatchAbortRegistry.instance().clear_all()
ClearAll ==
    /\ pc = "clear_all"
    /\ abort_flags' = clear_all(abort_flags)
    /\ pc' = "done"
    /\ UNCHANGED <<inputVars, candVars, abort_requested, current_song_id, i,
                   ticks, ret, ownerVars, signalVars, histVars, regVars, rbVars, extVars, orchVars>>

\* --------------------------------------------------- BatchWorker.abort
\* the encode of candidate i has been entered or is about to be, and has not returned
EncodeNotReturned ==
    /\ pc \in {"set_current", "get_song", "process_video", "poll", "readline"}
    /\ status[i] = "transcoding"

\* self._abort_requested = True.  A call begun after run() has returned finds
\* _current_song_id = None and only sets the request flag nobody reads any
\* more, so calls are taken up to the return of run().
AbortCall ==
    /\ pcA = "idle"
    /\ abortCalls < AbortCallsPerRun
    /\ pc # "done"
    /\ abortCalls' = abortCalls + 1
    /\ abort_requested' = TRUE
    /\ abortActive' = IF EncodeNotReturned THEN i ELSE 0
    /\ abortSetIds' = {}
    /\ pcA' = "read_current"
    /\ UNCHANGED <<inputVars, candVars, current_song_id, abort_flags, pc, i,
                   ticks, ret, abort_arg, signalVars, outcome, flagAtPoll, abortPoint,
                   jobAbortSeen, regVars, rbVars, extVars, orchVars>>

\* if self._current_song_id is not None
AbortReadCurrent ==
    /\ pcA = "read_current"
    /\ pcA' = IF current_song_id = NoSong THEN "idle" ELSE "read_arg"
    /\ UNCHANGED <<inputVars, candVars, abort_requested, current_song_id, abort_flags,
                   pc, i, ticks, ret, abort_arg, abortCalls, signalVars,
                   histVars, regVars, rbVars, extVars, orchVars>>

\* the argument self._current_song_id of set_abort is read a second time
AbortReadArg ==
    /\ pcA = "read_arg"
    /\ abort_arg' = current_song_id
    /\ pcA' = "set_flag"
    /\ UNCHANGED <<inputVars, candVars, abort_requested, current_song_id, abort_flags,
                   pc, i, ticks, ret, abortCalls, signalVars, histVars, regVars, rbVars, extVars, orchVars>>

\* BatchAbortRegistry.instance().set_abort(...)
AbortSetFlag ==
    /\ pcA = "set_flag"
    /\ abort_flags' = set_abort(abort_flags, abort_arg)
    /\ abortSetIds' = abortSetIds \cup {abort_arg}
    /\ abort_arg' = NoSong
    /\ pcA' = "idle"
    /\ UNCHANGED <<inputVars, candVars, abort_requested, current_song_id, pc,
                   i, ticks, ret, abortCalls, signalVars, outcome, flagAtPoll,
                   abortPoint, abortActive, jobAbortSeen, regVars, rbVars, extVars, orchVars>>

WorkerStep ==
    \/ Connect
    \/ CheckAbortRequested
    \/ AbortStep
    \/ SkipUnselected
    \/ BeginItem
    \/ SetCurrent
    \/ GetSong
    \/ ProcessVideoStart
    \/ Poll
    \/ ReadProgressLine
    \/ EncodeFinished
    \/ InterpretResult
    \/ Callback
    \/ HandleException
    \/ ClearItem
    \/ ResetCurrent
    \/ LoopEnd
    \/ ClearAll

OwnerStep ==
    \/ AbortCall
    \/ AbortReadCurrent
    \/ AbortReadArg
    \/ AbortSetFlag

Next ==
    \/ WorkerStep
    \/ OwnerStep

Spec == Init /\ [][Next]_vars

\* ------------------------------------------------------------------------
\* BatchAbortRegistry on its own: two threads call its four methods in any
\* order; each method body runs under self._flags_lock.
RegOps == {"set_abort", "is_aborted", "clear", "clear_all"}
IsSetMark(m) == m \in {"set", "set_again"}

\* with self._flags_lock: a thread enters one of the methods
RegEnter(t) ==
    /\ flags_lock = NoThread
    /\ regOp[t][1] = "idle"
    /\ \E op \in RegOps, id \in Keys : regOp' = [regOp EXCEPT ![t] = <<op, id>>]
    /\ flags_lock' = t
    /\ UNCHANGED <<inputVars, candVars, abort_requested, current_song_id, abort_flags,
                   pc, i, ticks, ret, ownerVars, signalVars, histVars,
                   regRet, lastMut, rbVars, extVars, orchVars>>

\* body of set_abort, then the lock is released
RegSetAbort(t) ==
    /\ flags_lock = t
    /\ regOp[t][1] = "set_abort"
    /\ abort_flags' = set_abort(abort_flags, regOp[t][2])
    /\ lastMut' = [lastMut EXCEPT
                      ![regOp[t][2]] = IF IsSetMark(@) THEN "set_again" ELSE "set"]
    /\ regOp' = [regOp EXCEPT ![t] = <<"idle", NoSong>>]
    /\ flags_lock' = NoThread
    /\ UNCHANGED <<inputVars, candVars, abort_requested, current_song_id, pc,
                   i, ticks, ret, ownerVars, signalVars, histVars, regRet, rbVars, extVars, orchVars>>

\* body of is_aborted, then the lock is released
RegIsAborted(t) ==
    /\ flags_lock = t
    /\ regOp[t][1] = "is_aborted"
    /\ regRet' = registry_is_aborted(abort_flags, regOp[t][2])
    /\ regOp' = [regOp EXCEPT ![t] = <<"idle", NoSong>>]
    /\ flags_lock' = NoThread
    /\ UNCHANGED <<inputVars, candVars, abort_requested, current_song_id, abort_flags,
                   pc, i, ticks, ret, ownerVars, signalVars, histVars, lastMut, rbVars, extVars, orchVars>>

\* body of clear, then the lock is released
RegClear(t) ==
    /\ flags_lock = t
    /\ regOp[t][1] = "clear"
    /\ abort_flags' = clear(abort_flags, regOp[t][2])
    /\ lastMut' = [lastMut EXCEPT ![regOp[t][2]] = "cleared"]
    /\ regOp' = [regOp EXCEPT ![t] = <<"idle", NoSong>>]
    /\ flags_lock' = NoThread
    /\ UNCHANGED <<inputVars, candVars, abort_requested, current_song_id, pc,
                   i, ticks, ret, ownerVars, signalVars, histVars, regRet, rbVars, extVars, orchVars>>

\* body of clear_all, then the lock is released
RegClearAll(t) ==
    /\ flags_lock = t
    /\ regOp[t][1] = "clear_all"
    /\ abort_flags' = clear_all(abort_flags)
    /\ lastMut' = [k \in Keys |-> IF lastMut[k] = "never" THEN "never" ELSE "cleared"]
    /\ regOp' = [regOp EXCEPT ![t] = <<"idle", NoSong>>]
    /\ flags_lock' = NoThread
    /\ UNCHANGED <<inputVars, candVars, abort_requested, current_song_id, pc,
                   i, ticks, ret, ownerVars, signalVars, histVars, regRet, rbVars, extVars, orchVars>>

RegistryInit ==
    /\ Init
    /\ song_id = [c \in Candidates |-> 1]
    /\ selected = [c \in Candidates |-> TRUE]
    /\ on_video_success = FALSE

RegistryNext ==
    \E t \in Threads :
        \/ RegEnter(t)
        \/ RegSetAbort(t)
        \/ RegIsAborted(t)
        \/ RegClear(t)
        \/ RegClearAll(t)

RegistrySpec == RegistryInit /\ [][RegistryNext]_vars

\* ========================================================================
\* RollbackManager (rollback.py), with the file operations of its callers
\* ========================================================================
RemoveTempDir(files) == [path \in Paths |-> IF InTempDir(path) THEN NoFile ELSE files[path]]

\* Mutant of TranscodeFiles: the output is never put in place.
TranscodeFilesNoReplace(c) ==
    IF backup_original
    THEN [fs EXCEPT ![user_backup_path(video_path(c))] = fs[video_path(c)],
                    ![video_path(c)] = NoFile]
    ELSE IF final_path(c) # video_path(c)
    THEN [fs EXCEPT ![video_path(c)] = NoFile]
    ELSE fs

\* process_video, success path: optional move of the original to the user
\* backup, the output replaces final_path, the old source is removed
TranscodeFiles(c) ==
    LET vp == video_path(c)
        fp == final_path(c)
        moved == IF backup_original
                 THEN [fs EXCEPT ![user_backup_path(vp)] = fs[vp], ![vp] = NoFile]
                 ELSE fs
        placed == [moved EXCEPT ![fp] = <<c, "new">>]
    IN  IF ~backup_original /\ fp # vp /\ placed[vp] # NoFile
        THEN [placed EXCEPT ![vp] = NoFile]
        ELSE placed

\* RollbackEntry(song_id, original_path, rollback_backup_path, new_output_path,
\* transcoded_at, user_backup_existed)
RollbackEntry(id, original_path, rollback_backup_path, new_output_path, user_backup_existed) ==
    [song_id |-> id,
     original_path |-> original_path,
     rollback_backup_path |-> rollback_backup_path,
     new_output_path |-> new_output_path,
     user_backup_existed |-> user_backup_existed]

\* Mutant of record_transcode: the new entry is put in front of the list.
record_transcode_prepend(es, id, original_path, rollback_backup_path, new_output_path, user_backup_existed) ==
    <<RollbackEntry(id, original_path, rollback_backup_path, new_output_path,
                    user_backup_existed)>> \o es

\* self.entries.append(entry)
record_transcode(es, id, original_path, rollback_backup_path, new_output_path, user_backup_existed) ==
    Append(es, RollbackEntry(id, original_path, rollback_backup_path,
                             new_output_path, user_backup_existed))

\* _save_manifest: without a manifest path nothing is written; a failed write
\* is logged and the file keeps what it held
SaveManifest(es) ==
    IF rollback_dir = NoDir
    THEN UNCHANGED manifest
    ELSE \E ok \in BOOLEAN :
            manifest' = IF ok /\ dir_exists THEN Len(es) ELSE manifest

\* Mutant of CleanupRollbackDirectory: no exists() test and no try/except, so
\* the error of rmtree reaches the caller.
CleanupRollbackDirectoryUnguarded ==
    IF rollback_dir # NoDir
    THEN \E ok \in BOOLEAN :
            IF ok /\ dir_exists
            THEN /\ dir_exists' = FALSE
                 /\ fs' = RemoveTempDir(fs)
                 /\ manifest' = 0
                 /\ rmtree_result' = "removed"
            ELSE /\ rmtree_result' = "raised"
                 /\ UNCHANGED <<fs, dir_exists, manifest>>
    ELSE /\ rmtree_result' = "none"
         /\ UNCHANGED <<fs, dir_exists, manifest>>

\* _cleanup_rollback_directory: rmtree of the directory when it is set and
\* exists; a failing rmtree is logged and leaves the directory in place
CleanupRollbackDirectory ==
    IF rollback_dir # NoDir /\ dir_exists
    THEN \E ok \in BOOLEAN :
            IF ok
            THEN /\ dir_exists' = FALSE
                 /\ fs' = RemoveTempDir(fs)
                 /\ manifest' = 0
                 /\ rmtree_result' = "removed"
            ELSE /\ rmtree_result' = "logged"
                 /\ UNCHANGED <<fs, dir_exists, manifest>>
    ELSE /\ rmtree_result' = "none"
         /\ UNCHANGED <<fs, dir_exists, manifest>>

\* enable_rollback: the directory is created and remembered
EnableRollback ==
    /\ rb_pc = "idle"
    /\ rollback_dir = NoDir
    /\ rollback_dir' = TempDir
    /\ dir_exists' = TRUE
    /\ last_op' = "enable_rollback"
    /\ UNCHANGED <<workerVars, cfgVars, extVars, output_path, bi, fs, entries, manifest, rb_pc,
                   rollbackAllVars, rmtree_result, orchVars>>

\* RollbackBackupWorker.run, one iteration: the original of the candidate is
\* copied to its rollback backup path; a failing copy ends the worker and may
\* leave a partial file
CopyBackup(c) ==
    /\ rb_pc = "idle"
    /\ rollback_dir # NoDir
    /\ c = bi
    /\ i = 1
    /\ LET path == get_rollback_backup_path(song_id[c], video_path(c))
       IN  \E left \in {"copied", "nothing", "partial"} :
              /\ fs' = [fs EXCEPT ![path] =
                           CASE left = "copied" -> fs[video_path(c)]
                             [] left = "nothing" -> fs[path]
                             [] left = "partial" -> <<c, "partial">>]
              /\ bi' = IF left = "copied" THEN bi + 1 ELSE NumCandidates + 1
    /\ dir_exists' = TRUE
    /\ last_op' = "get_rollback_backup_path"
    /\ UNCHANGED <<workerVars, cfgVars, extVars, output_path, managerVars, rb_pc,
                   rollbackAllVars, rmtree_result, orchVars>>

\* process_video for candidate c, the next of the list: it transcodes the
\* file and returns success, or returns without an output
Transcode(c) ==
    /\ rb_pc = "idle"
    /\ rollback_dir # NoDir
    /\ c = i
    /\ output_path[c] = NoPath
    /\ \E ok \in BOOLEAN :
          IF ok
          THEN /\ output_path' = [output_path EXCEPT ![c] = final_path(c)]
               /\ fs' = TranscodeFiles(c)
               /\ UNCHANGED i
          ELSE /\ i' = i + 1
               /\ UNCHANGED <<output_path, fs>>
    /\ UNCHANGED <<song_id, selected, on_video_success, candVars, abort_requested,
                   current_song_id, abort_flags, pc, ticks, ret, ownerVars,
                   signalVars, histVars, regVars,
                   cfgVars, extVars, bi, dir_exists, managerVars, rb_pc,
                   rollbackAllVars, cleanupVars, orchVars>>

Recorded(c) == \E k \in 1..Len(entries) : entries[k].original_path = video_path(c)

\* record_transcode for candidate c, called once its transcode succeeded
RecordTranscode(c) ==
    /\ rb_pc = "idle"
    /\ rollback_dir # NoDir
    /\ c = i
    /\ output_path[c] # NoPath
    /\ i' = i + 1
    /\ entries' = record_transcode(entries, song_id[c], video_path(c),
                       get_rollback_backup_path(song_id[c], video_path(c)),
                       output_path[c],
                       fs[user_backup_path(video_path(c))] # NoFile)
    /\ SaveManifest(entries')
    /\ last_op' = "record_transcode"
    /\ UNCHANGED <<song_id, selected, on_video_success, candVars, abort_requested,
                   current_song_id, abort_flags, pc, ticks, ret, ownerVars,
                   signalVars, histVars, regVars,
                   cfgVars, extVars, output_path, bi, fsVars, rollback_dir, rb_pc,
                   rollbackAllVars, rmtree_result, orchVars>>

\* Mutant of NextPosition: the entries are visited in recording order.
NextPositionForward(es, remaining) == Len(es) - remaining + 1

\* for entry in reversed(self.entries): the entry visited when `remaining`
\* entries are still to be visited
NextPosition(es, remaining) == remaining

\* Mutant of AfterFailure: a failed restore ends the loop.
AfterFailureStop(remaining) == 0

\* failed += 1; continue (or the end of the except block)
AfterFailure(remaining) == remaining - 1

\* Mutant of RollbackAllBegin: the entries to restore are those of the
\* manifest file.
RollbackAllBeginFromManifest ==
    /\ rb_pc = "idle"
    /\ last_op # "rollback_all"
    /\ rb_pc' = "loop"
    /\ rb_k' = manifest
    /\ rb_success' = 0
    /\ rb_failed' = 0
    /\ successful_ids' = <<>>
    /\ attempts' = <<>>
    /\ restored' = {}
    /\ last_op' = "rollback_all"
    /\ UNCHANGED <<workerVars, cfgVars, extVars, output_path, bi, fsVars, managerVars, rmtree_result, orchVars>>

\* rollback_all: success = 0, failed = 0, successful_ids = []
RollbackAllBegin ==
    /\ rb_pc = "idle"
    /\ last_op # "rollback_all"
    /\ rb_pc' = "loop"
    /\ rb_k' = Len(entries)
    /\ rb_success' = 0
    /\ rb_failed' = 0
    /\ successful_ids' = <<>>
    /\ attempts' = <<>>
    /\ restored' = {}
    /\ last_op' = "rollback_all"
    /\ UNCHANGED <<workerVars, cfgVars, extVars, output_path, bi, fsVars, managerVars, rmtree_result, orchVars>>

RestoreOutcomes == {"ok", "unlink_raises", "copy_raises", "output_unlink_raises",
                    "meta_raises"}

\* Mutant of RestoredFiles: the new output is left in place.
RestoredFilesKeepsOutput(files, o, b, n) == [files EXCEPT ![o] = files[b]]

\* the files after a restore without error: the backup is copied over the
\* original path and the new output is removed when it lies elsewhere
RestoredFiles(files, o, b, n) ==
    LET copied == [files EXCEPT ![o] = files[b]]
    IN  IF n # o THEN [copied EXCEPT ![n] = NoFile] ELSE copied

\* one iteration of the loop of rollback_all: the restore of one entry, which
\* succeeds or fails at the missing backup, at unlink, at copy2, at the unlink
\* of the new output or at the SyncMeta update
RollbackEntryStep ==
    /\ rb_pc = "loop"
    /\ rb_k >= 1
    /\ LET pos == NextPosition(entries, rb_k)
           e == entries[pos]
           b == e.rollback_backup_path
           o == e.original_path
           n == e.new_output_path
           put == [fs EXCEPT ![o] = fs[b]]
       IN  /\ attempts' = Append(attempts, pos)
           /\ IF fs[b] = NoFile
              THEN /\ rb_failed' = rb_failed + 1
                   /\ rb_k' = AfterFailure(rb_k)
                   /\ UNCHANGED <<fs, rb_success, successful_ids, restored>>
              ELSE \E how \in RestoreOutcomes :
                      /\ how = "unlink_raises" => fs[o] # NoFile
                      /\ how = "output_unlink_raises" => (n # o /\ fs[n] # NoFile)
                      /\ fs' = CASE how = "unlink_raises" -> fs
                                 [] how = "copy_raises" -> [fs EXCEPT ![o] = NoFile]
                                 [] how = "output_unlink_raises" -> put
                                 [] OTHER -> RestoredFiles(fs, o, b, n)
                      /\ IF how = "ok"
                         THEN /\ rb_success' = rb_success + 1
                              /\ successful_ids' = Append(successful_ids, e.song_id)
                              /\ restored' = restored \cup {pos}
                              /\ rb_k' = rb_k - 1
                              /\ UNCHANGED rb_failed
                         ELSE /\ rb_failed' = rb_failed + 1
                              /\ rb_k' = AfterFailure(rb_k)
                              /\ UNCHANGED <<rb_success, successful_ids, restored>>
    /\ UNCHANGED <<workerVars, cfgVars, extVars, output_path, bi, dir_exists, managerVars, rb_pc,
                   cleanupVars, orchVars>>

\* Mutant of RollbackAllReturn: the directory is kept when a restore failed.
RollbackAllReturnKeepsOnFailure ==
    /\ rb_pc = "loop"
    /\ rb_k = 0
    /\ IF rb_failed = 0
       THEN CleanupRollbackDirectory
       ELSE rmtree_result' = "none" /\ UNCHANGED <<fs, dir_exists, manifest>>
    /\ rb_pc' = "returned"
    /\ UNCHANGED <<workerVars, cfgVars, extVars, output_path, bi, rollback_dir, entries,
                   rollbackAllVars, last_op, orchVars>>

\* the loop is over: self._cleanup_rollback_directory(); return
RollbackAllReturn ==
    /\ rb_pc = "loop"
    /\ rb_k = 0
    /\ CleanupRollbackDirectory
    /\ rb_pc' = "returned"
    /\ UNCHANGED <<workerVars, cfgVars, extVars, output_path, bi, rollback_dir, entries,
                   rollbackAllVars, last_op, orchVars>>

\* cleanup_rollback_data
CleanupRollbackData ==
    /\ rb_pc \in {"idle", "returned"}
    /\ CleanupRollbackDirectory
    /\ last_op' = "cleanup_rollback_data"
    /\ UNCHANGED <<workerVars, cfgVars, extVars, output_path, bi, rollback_dir, entries, rb_pc,
                   rollbackAllVars, orchVars>>

\* The manager with its callers' file operations, its methods called in any
\* order a caller can call them.
RollbackInit ==
    /\ WorkerInit
    /\ song_id \in {[c \in Candidates |-> 1],
                     [c \in Candidates |-> IF c < NumSongs THEN c ELSE NumSongs]}
    /\ selected = [c \in Candidates |-> TRUE]
    /\ on_video_success = TRUE
    /\ RollbackIdle
    /\ same_path \in {[c \in Candidates |-> same] : same \in BOOLEAN}
    /\ backup_original = FALSE
    /\ output_path = [c \in Candidates |-> NoPath]
    /\ bi = 1
    /\ fs = FilesBeforeRun({})
    /\ dir_exists = FALSE
    /\ OrchestratorIdle
    /\ ExtIdle
    /\ rollback_enabled = TRUE
    /\ had_user_backup = {}

RollbackNext ==
    \/ EnableRollback
    \/ \E c \in Candidates : CopyBackup(c)
    \/ \E c \in Candidates : Transcode(c)
    \/ \E c \in Candidates : RecordTranscode(c)
    \/ RollbackAllBegin
    \/ RollbackEntryStep
    \/ RollbackAllReturn
    \/ CleanupRollbackData

RollbackSpec == RollbackInit /\ [][RollbackNext]_vars

\* ========================================================================
\* BatchTranscodeOrchestrator._execute_batch (batch_orchestrator.py) with the
\* worker of batch_worker.py taken one loop iteration at a time.
\*
\* _on_video_success calls the Rollback Manager with a media kind
\* (get_rollback_backup_path(..., media_type=...) and a six-argument
\* record_transcode).  The manager of rollback.py declares neither; the
\* media-aware manager these calls are written for is not part of the
\* sources.  The two operators below stand for it: they take the calls of the
\* callback and behave as the declared methods do, the media kind being read
\* by no code of the sources.
\* ========================================================================
get_rollback_backup_path_media(id, original_path) ==
    get_rollback_backup_path(id, original_path)

record_transcode_media(es, id, original_path, rollback_backup_path, new_output_path, user_backup_existed) ==
    record_transcode(es, id, original_path, rollback_backup_path,
                     new_output_path, user_backup_existed)

\* Mutant of OnVideoSuccess: nothing is recorded.
OnVideoSuccessNoRecord(c, files, out) == UNCHANGED <<entries, manifest, last_op>>

\* _on_video_success(candidate), with the files as the transcode left them and
\* the output path of the result
OnVideoSuccess(c, files, out) ==
    IF rollback_manager /\ out # NoPath
    THEN LET path == get_rollback_backup_path_media(song_id[c], video_path(c))
         IN  IF files[path] = NoFile
             THEN /\ last_op' = "get_rollback_backup_path"
                  /\ UNCHANGED <<entries, manifest>>
             ELSE /\ entries' = record_transcode_media(entries, song_id[c],
                                    video_path(c), path, out,
                                    song_id[c] \in existing_user_backups)
                  /\ SaveManifest(entries')
                  /\ last_op' = "record_transcode"
    ELSE UNCHANGED <<entries, manifest, last_op>>

\* run(), top of one loop iteration: the abort branch (with the outer finally),
\* the skip of an unselected candidate, or the candidate enters transcoding
RunIterationBegin ==
    /\ opc = "run"
    /\ pc = "check_req"
    /\ i <= NumCandidates
    /\ \E job \in BOOLEAN :
          /\ jobAbortSeen' = (jobAbortSeen \/ job)
          /\ IF abort_requested \/ is_aborted(job, song_id[i])
             THEN /\ status' = MarkRemaining(status, i)
                  /\ batch_aborted' = batch_aborted + 1
                  /\ abortPoint' = i
                  /\ abort_flags' = clear_all(abort_flags)
                  /\ pc' = "done"
                  /\ UNCHANGED <<i, current_song_id>>
             ELSE IF ~selected[i]
             THEN /\ status' = [status EXCEPT ![i] = "skipped"]
                  /\ i' = i + 1
                  /\ UNCHANGED <<batch_aborted, abortPoint, abort_flags, pc,
                                 current_song_id>>
             ELSE /\ status' = [status EXCEPT ![i] = "transcoding"]
                  /\ current_song_id' = song_id[i]
                  /\ pc' = "process_video"
                  /\ UNCHANGED <<batch_aborted, abortPoint, abort_flags, i>>
    /\ video_started' = IF pc' = "process_video"
                        THEN Emit(video_started, i) ELSE video_started
    /\ UNCHANGED <<inputVars, error_message, result, abort_requested, ticks, ret,
                   ownerVars, batch_completed, outcome, flagAtPoll, abortActive,
                   abortSetIds, regVars, rbVars, isoVars, wizVars, cacheVars, anVars,
                   video_completed, callback_calls, orchVars>>

ItemOutcomes == {"raised", "failed", "aborted", "already", "transcoded"}

\* what process_video returned, as InterpretResult reads it
ResultOf(how) == IF how \in {"already", "transcoded"} THEN "success" ELSE how

\* run(), rest of one loop iteration: process_video raises or returns a
\* failure, an abort (seen at a poll), a success without transcode or a
\* success with the output in place; the status is set from the result, the
\* success callback is called, the finally block clears the flag of the song
RunIterationEnd ==
    /\ opc = "run"
    /\ pc = "process_video"
    /\ \E how \in ItemOutcomes : \E job \in BOOLEAN :
          LET out == CASE how = "already" -> video_path(i)
                       [] how = "transcoded" -> final_path(i)
                       [] OTHER -> NoPath
              files == IF how = "transcoded" THEN TranscodeFiles(i) ELSE fs
          IN  /\ how = "aborted" => is_aborted(job, song_id[i])
              /\ how # "aborted" => ~job
              /\ jobAbortSeen' = (jobAbortSeen \/ job)
              /\ flagAtPoll' = [flagAtPoll EXCEPT ![i] =
                                   how = "aborted"
                                   /\ registry_is_aborted(abort_flags, song_id[i])]
              /\ outcome' = [outcome EXCEPT ![i] = ResultOf(how)]
              /\ status' = [status EXCEPT ![i] =
                               IF how = "raised" THEN "failed" ELSE ResultOf(how)]
              /\ result' = [result EXCEPT ![i] =
                               IF how = "raised" THEN @ ELSE ResultOf(how)]
              /\ error_message' = [error_message EXCEPT ![i] =
                                      CASE how = "raised" -> "str(e)"
                                        [] how = "failed" -> "result.error_message"
                                        [] OTHER -> @]
              /\ output_path' = [output_path EXCEPT ![i] = out]
              /\ fs' = files
              /\ IF ResultOf(how) = "success" /\ on_video_success
                 THEN OnVideoSuccess(i, files, out)
                 ELSE UNCHANGED <<entries, manifest, last_op>>
    /\ callback_calls' = IF outcome'[i] = "success" /\ on_video_success
                         THEN Emit(callback_calls, i) ELSE callback_calls
    /\ video_completed' = Emit(video_completed, i)
    /\ abort_flags' = clear(abort_flags, song_id[i])
    /\ current_song_id' = NoSong
    /\ i' = i + 1
    /\ pc' = "check_req"
    /\ UNCHANGED <<inputVars, abort_requested, ticks, ret, ownerVars, signalVars,
                   abortPoint, abortActive, abortSetIds, regVars,
                   cfgVars, isoVars, wizVars, cacheVars, anVars, video_started,
                   bi, dir_exists, rollback_dir, rb_pc, rollbackAllVars,
                   rmtree_result, orchVars>>

\* run(), the loop ran off the end of the list: batch_completed.emit() and the
\* outer finally
RunReturn ==
    /\ opc = "run"
    /\ pc = "check_req"
    /\ i > NumCandidates
    /\ batch_completed' = batch_completed + 1
    /\ abort_flags' = clear_all(abort_flags)
    /\ pc' = "done"
    /\ UNCHANGED <<inputVars, candVars, abort_requested, current_song_id, i, ticks,
                   ret, ownerVars, batch_aborted, histVars, regVars, rbVars, extVars, orchVars>>

\* _execute_batch up to the start of a worker: without a selected candidate it
\* returns; with rollback enabled _create_rollback_backups creates the manager
\* and its directory, notes the songs that have a user backup and starts the
\* backup worker; otherwise the batch worker is started
ExecuteBatchStart ==
    /\ opc = "start"
    /\ IF \A c \in Candidates : ~selected[c]
       THEN /\ opc' = "end"
            /\ UNCHANGED <<rollback_manager, existing_user_backups, bpc,
                           rollback_dir, dir_exists, last_op>>
       ELSE IF rollback_enabled
       THEN /\ rollback_manager' = TRUE
            /\ rollback_dir' = TempDir
            /\ dir_exists' = TRUE
            /\ last_op' = "enable_rollback"
            /\ existing_user_backups' =
                  {song_id[c] : c \in {d \in Candidates :
                       selected[d] /\ fs[user_backup_path(video_path(d))] # NoFile}}
            /\ bpc' = "top"
            /\ opc' = "backup"
       ELSE /\ opc' = "run"
            /\ UNCHANGED <<rollback_manager, existing_user_backups, bpc,
                           rollback_dir, dir_exists, last_op>>
    /\ backup_success' = FALSE
    /\ backup_abort_requested' = FALSE
    /\ UNCHANGED <<workerVars, cfgVars, extVars, output_path, bi, fs, entries, manifest,
                   rb_pc, rollbackAllVars, rmtree_result,
                   rollback_enabled, abort_flag, had_user_backup, rollback_reply>>

\* RollbackBackupWorker.run, top of one loop iteration: the abort check, then
\* the destination file is opened; past the last candidate finished is emitted
BackupIterationBegin ==
    /\ opc = "backup"
    /\ bpc = "top"
    /\ IF bi > NumCandidates
       THEN bpc' = "finished" /\ UNCHANGED <<bi, fs>>
       ELSE IF ~selected[bi]
       THEN bi' = bi + 1 /\ UNCHANGED <<bpc, fs>>
       ELSE IF backup_abort_requested
       THEN bpc' = "aborted" /\ UNCHANGED <<bi, fs>>
       ELSE \E opened \in BOOLEAN :
               IF opened
               THEN /\ fs' = [fs EXCEPT
                                ![get_rollback_backup_path(song_id[bi], video_path(bi))]
                                    = <<bi, "partial">>]
                    /\ bpc' = "copying"
                    /\ UNCHANGED bi
               ELSE bpc' = "error" /\ UNCHANGED <<bi, fs>>
    /\ UNCHANGED <<workerVars, cfgVars, extVars, output_path, dir_exists, managerVars, rb_pc,
                   rollbackAllVars, cleanupVars,
                   opc, rollback_enabled, rollback_manager, abort_flag,
                   existing_user_backups, backup_success, backup_abort_requested,
                   had_user_backup, rollback_reply>>

\* Mutant of BackupChunkLoop: an abort between chunks leaves the partial file.
BackupChunkLoopKeepsPartial ==
    /\ opc = "backup"
    /\ bpc = "copying"
    /\ LET path == get_rollback_backup_path(song_id[bi], video_path(bi))
       IN  IF backup_abort_requested
           THEN /\ fs' = fs
                /\ bpc' = "aborted"
                /\ UNCHANGED bi
           ELSE \E ok \in BOOLEAN :
                   IF ok
                   THEN /\ fs' = [fs EXCEPT ![path] = fs[video_path(bi)]]
                        /\ bi' = bi + 1
                        /\ bpc' = "top"
                   ELSE /\ bpc' = "error"
                        /\ UNCHANGED <<bi, fs>>
    /\ UNCHANGED <<workerVars, cfgVars, extVars, output_path, dir_exists, managerVars, rb_pc,
                   rollbackAllVars, cleanupVars,
                   opc, rollback_enabled, rollback_manager, abort_flag,
                   existing_user_backups, backup_success, backup_abort_requested,
                   had_user_backup, rollback_reply>>

\* RollbackBackupWorker.run, the chunk loop of one file: an abort seen between
\* chunks removes the partial file and emits aborted; a failing read or write
\* emits error and leaves the partial file; otherwise the copy is complete
BackupChunkLoop ==
    /\ opc = "backup"
    /\ bpc = "copying"
    /\ LET path == get_rollback_backup_path(song_id[bi], video_path(bi))
       IN  IF backup_abort_requested
           THEN /\ fs' = [fs EXCEPT ![path] = NoFile]
                /\ bpc' = "aborted"
                /\ UNCHANGED bi
           ELSE \E ok \in BOOLEAN :
                   IF ok
                   THEN /\ fs' = [fs EXCEPT ![path] = fs[video_path(bi)]]
                        /\ bi' = bi + 1
                        /\ bpc' = "top"
                   ELSE /\ bpc' = "error"
                        /\ UNCHANGED <<bi, fs>>
    /\ UNCHANGED <<workerVars, cfgVars, extVars, output_path, dir_exists, managerVars, rb_pc,
                   rollbackAllVars, cleanupVars,
                   opc, rollback_enabled, rollback_manager, abort_flag,
                   existing_user_backups, backup_success, backup_abort_requested,
                   had_user_backup, rollback_reply>>

\* on_abort_requested of the backup dialog: both abort flags are set
BackupAbortRequested ==
    /\ opc = "backup"
    /\ bpc \in {"top", "copying", "finished"}
    /\ ~backup_abort_requested
    /\ backup_abort_requested' = TRUE
    /\ UNCHANGED <<workerVars, rbVars, extVars,
                   opc, rollback_enabled, rollback_manager, abort_flag,
                   existing_user_backups, backup_success, bpc,
                   had_user_backup, rollback_reply>>

\* on_abort_requested of the backup dialog, handled on the owner thread while
\* the error signal of the worker is still queued: the worker has hit the copy
\* error after its last look at the abort flag
BackupAbortRequestedLate ==
    /\ opc = "backup"
    /\ bpc = "error"
    /\ ~backup_abort_requested
    /\ backup_abort_requested' = TRUE
    /\ UNCHANGED <<workerVars, rbVars, extVars,
                   opc, rollback_enabled, rollback_manager, abort_flag,
                   existing_user_backups, backup_success, bpc,
                   had_user_backup, rollback_reply>>

\* _on_backup_finished
OnBackupFinished ==
    /\ opc = "backup"
    /\ bpc = "finished"
    /\ backup_success' = ~backup_abort_requested
    /\ bpc' = "handled"
    /\ UNCHANGED <<workerVars, rbVars, extVars,
                   opc, rollback_enabled, rollback_manager, abort_flag,
                   existing_user_backups, backup_abort_requested,
                   had_user_backup, rollback_reply>>

\* _on_backup_error: the user chooses to continue without the missing backups
\* or to stop
OnBackupError ==
    /\ opc = "backup"
    /\ bpc = "error"
    /\ \E reply \in {"Yes", "No"} : backup_success' = (reply = "Yes")
    /\ bpc' = "handled"
    /\ UNCHANGED <<workerVars, rbVars, extVars,
                   opc, rollback_enabled, rollback_manager, abort_flag,
                   existing_user_backups, backup_abort_requested,
                   had_user_backup, rollback_reply>>

\* _on_backup_aborted
OnBackupAborted ==
    /\ opc = "backup"
    /\ bpc = "aborted"
    /\ backup_success' = FALSE
    /\ bpc' = "handled"
    /\ UNCHANGED <<workerVars, rbVars, extVars,
                   opc, rollback_enabled, rollback_manager, abort_flag,
                   existing_user_backups, backup_abort_requested,
                   had_user_backup, rollback_reply>>

\* Mutant of BackupPhaseEnd: the batch worker is started whatever
\* _create_rollback_backups returned.
BackupPhaseEndStartsWorker ==
    /\ opc = "backup"
    /\ bpc = "handled"
    /\ opc' = "run"
    /\ UNCHANGED <<workerVars, rbVars, extVars,
                   rollback_enabled, rollback_manager, abort_flag,
                   existing_user_backups, backupVars, had_user_backup,
                   rollback_reply>>

\* the backup dialog has closed and _create_rollback_backups returns
\* _backup_success: on FALSE the rollback data is cleaned up and
\* _execute_batch returns, on TRUE the batch worker is started
BackupPhaseEnd ==
    /\ opc = "backup"
    /\ bpc = "handled"
    /\ IF backup_success
       THEN /\ opc' = "run"
            /\ UNCHANGED <<fs, dir_exists, manifest, cleanupVars>>
       ELSE /\ opc' = "end"
            /\ CleanupRollbackDirectory
            /\ last_op' = "cleanup_rollback_data"
    /\ UNCHANGED <<workerVars, cfgVars, extVars, output_path, bi, rollback_dir, entries,
                   rb_pc, rollbackAllVars,
                   rollback_enabled, rollback_manager, abort_flag,
                   existing_user_backups, backupVars, had_user_backup,
                   rollback_reply>>

\* run() is entered once the orchestrator has started the worker
WorkerConnect ==
    /\ opc = "run"
    /\ Connect

\* abort_batch: _abort_flag = True and worker.abort(), which sets the request
\* flag and the registry flag of the song being processed
AbortBatch ==
    /\ opc = "run"
    /\ ~abort_flag
    /\ abort_flag' = TRUE
    /\ abort_requested' = TRUE
    /\ abortCalls' = abortCalls + 1
    /\ abortActive' = IF pc = "process_video" THEN i ELSE 0
    /\ IF current_song_id # NoSong
       THEN /\ abort_flags' = set_abort(abort_flags, current_song_id)
            /\ abortSetIds' = {current_song_id}
       ELSE /\ UNCHANGED abort_flags
            /\ abortSetIds' = {}
    /\ UNCHANGED <<inputVars, candVars, current_song_id, pc, i, ticks, ret, pcA,
                   abort_arg, signalVars, outcome, flagAtPoll, abortPoint,
                   jobAbortSeen, regVars, rbVars, extVars,
                   opc, rollback_enabled, rollback_manager, existing_user_backups,
                   backupVars, had_user_backup, rollback_reply>>

\* Mutant of WorkerJoined: the orchestrator goes on when the dialog has
\* closed, without self._worker.wait().
WorkerJoinedNoWait ==
    /\ opc = "run"
    /\ opc' = "finalize"
    /\ UNCHANGED <<workerVars, rbVars, extVars,
                   rollback_enabled, rollback_manager, abort_flag,
                   existing_user_backups, backupVars, had_user_backup,
                   rollback_reply>>

\* the progress dialog has closed and self._worker.wait() has returned
WorkerJoined ==
    /\ opc = "run"
    /\ pc = "done"
    /\ opc' = "finalize"
    /\ UNCHANGED <<workerVars, rbVars, extVars,
                   rollback_enabled, rollback_manager, abort_flag,
                   existing_user_backups, backupVars, had_user_backup,
                   rollback_reply>>

NoCandidate == 0

\* next((c for c in self.candidates if c.song_id == song_id), None)
FirstCandidate(id) ==
    IF \E c \in Candidates : song_id[c] = id
    THEN CHOOSE c \in Candidates :
            song_id[c] = id /\ \A d \in 1..(c - 1) : song_id[d] # id
    ELSE NoCandidate

\* Mutant of RollsBack: the status of the candidate is not looked at.
RollsBackAnyStatus(st) == TRUE

\* if candidate and candidate.status == "success"
RollsBack(st) == st = "success"

\* for song_id in rolled_back_ids: the candidate found for the id becomes
\* rolled_back if it has status success
RECURSIVE MarkRolledBack(_, _, _)
MarkRolledBack(st, ids, k) ==
    IF k > Len(ids)
    THEN st
    ELSE LET c == FirstCandidate(ids[k])
         IN  MarkRolledBack(IF c # NoCandidate /\ RollsBack(st[c])
                            THEN [st EXCEPT ![c] = "rolled_back"]
                            ELSE st,
                            ids, k + 1)

\* _handle_abort up to the answer to the question: nothing is asked without a
\* manager or without entries; Yes leads to rollback_all
HandleAbort ==
    /\ opc = "finalize"
    /\ abort_flag
    /\ IF ~rollback_manager \/ entries = <<>>
       THEN opc' = "end" /\ UNCHANGED rollback_reply
       ELSE \E reply \in {"Yes", "No"} :
               /\ rollback_reply' = reply
               /\ opc' = IF reply = "Yes" THEN "rollback" ELSE "end"
    /\ UNCHANGED <<workerVars, rbVars, extVars,
                   rollback_enabled, rollback_manager, abort_flag,
                   existing_user_backups, backupVars, had_user_backup>>

\* _handle_abort: success, failed, rolled_back_ids = rollback_all()
HandleAbortRollbackAll ==
    /\ opc = "rollback"
    /\ RollbackAllBegin

\* Mutant of HandleAbortStatuses: the statuses are left as they are.
HandleAbortStatusesNoUpdate ==
    /\ opc = "rollback"
    /\ rb_pc = "returned"
    /\ opc' = "end"
    /\ UNCHANGED <<workerVars, rbVars, extVars,
                   rollback_enabled, rollback_manager, abort_flag,
                   existing_user_backups, backupVars, had_user_backup,
                   rollback_reply>>

\* _handle_abort after rollback_all has returned: the statuses are updated
HandleAbortStatuses ==
    /\ opc = "rollback"
    /\ rb_pc = "returned"
    /\ status' = MarkRolledBack(status, successful_ids, 1)
    /\ opc' = "end"
    /\ UNCHANGED <<inputVars, error_message, result, abort_requested,
                   current_song_id, abort_flags, pc, i, ticks, ret, ownerVars,
                   signalVars, histVars, regVars, rbVars, extVars,
                   rollback_enabled, rollback_manager, abort_flag,
                   existing_user_backups, backupVars, had_user_backup,
                   rollback_reply>>

\* _apply_backup_preservation_rule from entry k on: the user backup of an
\* entry is overwritten with the rollback backup when the candidate found for
\* the song id has a successful result and both files exist; a copy2 that
\* raises (k \in failing) is logged and the user backup keeps what it held
RECURSIVE ApplyBackupPreservationRule(_, _, _)
ApplyBackupPreservationRule(files, k, failing) ==
    IF k > Len(entries)
    THEN files
    ELSE LET e == entries[k]
             c == FirstCandidate(e.song_id)
             ubp == user_backup_path(e.original_path)
             copies == /\ c # NoCandidate
                       /\ result[c] = "success"
                       /\ files[ubp] # NoFile
                       /\ files[e.rollback_backup_path] # NoFile
                       /\ k \notin failing
         IN  ApplyBackupPreservationRule(
                 IF copies THEN [files EXCEPT ![ubp] = files[e.rollback_backup_path]]
                           ELSE files,
                 k + 1, failing)

\* _execute_batch, no abort: with a manager the preservation rule is applied
ApplyPreservation ==
    /\ opc = "finalize"
    /\ ~abort_flag
    /\ IF rollback_manager
       THEN /\ \E failing \in SUBSET (1..Len(entries)) :
                  fs' = ApplyBackupPreservationRule(fs, 1, failing)
            /\ opc' = "cleanup"
       ELSE /\ opc' = "end"
            /\ UNCHANGED fs
    /\ UNCHANGED <<workerVars, cfgVars, extVars, output_path, bi, dir_exists, managerVars,
                   rb_pc, rollbackAllVars, cleanupVars,
                   rollback_enabled, rollback_manager, abort_flag,
                   existing_user_backups, backupVars, had_user_backup,
                   rollback_reply>>

\* _execute_batch, no abort: then cleanup_rollback_data()
FinalCleanup ==
    /\ opc = "cleanup"
    /\ CleanupRollbackDirectory
    /\ last_op' = "cleanup_rollback_data"
    /\ opc' = "end"
    /\ UNCHANGED <<workerVars, cfgVars, extVars, output_path, bi, rollback_dir, entries,
                   rb_pc, rollbackAllVars,
                   rollback_enabled, rollback_manager, abort_flag,
                   existing_user_backups, backupVars, had_user_backup,
                   rollback_reply>>

\* One call of _execute_batch.  The last candidates share a song id (the
\* audio and the video of one song); all are selected or all but the last;
\* every other candidate keeps its file name when transcoded; the last
\* candidate may have a user backup from an earlier run.
OrchInit ==
    /\ WorkerInit
    /\ song_id = [c \in Candidates |-> IF c < NumSongs THEN c ELSE NumSongs]
    /\ selected \in {[c \in Candidates |-> TRUE],
                      [c \in Candidates |-> c < NumCandidates]}
    /\ on_video_success = TRUE
    /\ RollbackIdle
    /\ same_path = [c \in Candidates |-> c % 2 = 1]
    /\ backup_original \in BOOLEAN
    /\ output_path = [c \in Candidates |-> NoPath]
    /\ bi = 1
    /\ had_user_backup \in {{}, {NumCandidates}}
    /\ fs = FilesBeforeRun(had_user_backup)
    /\ dir_exists = FALSE
    /\ OrchestratorIdle
    /\ ExtIdle
    /\ rollback_enabled \in BOOLEAN

OrchNext ==
    \/ ExecuteBatchStart
    \/ BackupIterationBegin
    \/ BackupChunkLoop
    \/ BackupAbortRequested
    \/ OnBackupFinished
    \/ OnBackupError
    \/ OnBackupAborted
    \/ BackupPhaseEnd
    \/ WorkerConnect
    \/ RunIterationBegin
    \/ RunIterationEnd
    \/ RunReturn
    \/ AbortBatch
    \/ WorkerJoined
    \/ HandleAbort
    \/ HandleAbortRollbackAll
    \/ RollbackEntryStep
    \/ RollbackAllReturn
    \/ HandleAbortStatuses
    \/ ApplyPreservation
    \/ FinalCleanup

OrchSpec == OrchInit /\ [][OrchNext]_vars

\* The backup-copy phase of _execute_batch alone, with every order of the
\* Cancel request and the signals of the backup worker.  _backup_abort_requested
\* is read by _on_backup_finished only, so the late request, which changes
\* nothing but that flag, is left to this specification.
BackupInit == OrchInit

BackupNext ==
    \/ ExecuteBatchStart
    \/ BackupIterationBegin
    \/ BackupChunkLoop
    \/ BackupAbortRequested
    \/ BackupAbortRequestedLate
    \/ OnBackupFinished
    \/ OnBackupError
    \/ OnBackupAborted
    \/ BackupPhaseEnd

BackupSpec == BackupInit /\ [][BackupNext]_vars

\* ========================================================================
\* Concurrent runs: several RollbackManager instances share the system temp
\* directory (rollback.py, enable_rollback and _cleanup_rollback_directory)
\* ========================================================================
\* Path(tempfile.gettempdir()) / "usdb_syncer_transcoder" / f"rollback_{timestamp}":
\* the directory is named by the whole second alone
RollbackDirName(timestamp) == timestamp

\* mkdir(parents=True, exist_ok=True): an existing directory is kept as it is
Mkdir(root, d) == [root EXCEPT ![d] = IF root[d] = Absent THEN {} ELSE root[d]]

\* shutil.rmtree: the directory goes with everything in it
Rmtree(root, d) == [root EXCEPT ![d] = Absent]

\* time passes
Tick ==
    /\ clock < MaxClock
    /\ clock' = clock + 1
    /\ UNCHANGED <<workerVars, rbVars, orchVars, wizVars, cacheVars, itemVars, anVars, rollback_dirs, temp_root>>

\* enable_rollback of the run m
ManagerEnableRollback(m) ==
    /\ rollback_dirs[m] = NoTimestamp
    /\ rollback_dirs' = [rollback_dirs EXCEPT ![m] = RollbackDirName(clock)]
    /\ temp_root' = Mkdir(temp_root, RollbackDirName(clock))
    /\ UNCHANGED <<workerVars, rbVars, orchVars, wizVars, cacheVars, itemVars, anVars, clock>>

\* the backup worker of the run m copies an original into the directory of
\* its manager
ManagerCopyBackup(m) ==
    /\ rollback_dirs[m] # NoTimestamp
    /\ temp_root[rollback_dirs[m]] # Absent
    /\ temp_root' = [temp_root EXCEPT ![rollback_dirs[m]] = @ \cup {m}]
    /\ UNCHANGED <<workerVars, rbVars, orchVars, wizVars, cacheVars, itemVars, anVars, clock, rollback_dirs>>

\* _cleanup_rollback_directory of the run m (from cleanup_rollback_data or at
\* the end of rollback_all); a failing rmtree is logged
ManagerCleanup(m) ==
    /\ rollback_dirs[m] # NoTimestamp
    /\ temp_root[rollback_dirs[m]] # Absent
    /\ \/ temp_root' = Rmtree(temp_root, rollback_dirs[m])
       \/ temp_root' = temp_root
    /\ UNCHANGED <<workerVars, rbVars, orchVars, wizVars, cacheVars, itemVars, anVars, clock, rollback_dirs>>

IsolationInit ==
    /\ Init
    /\ song_id = [c \in Candidates |-> 1]
    /\ selected = [c \in Candidates |-> TRUE]
    /\ on_video_success = FALSE

IsolationNext ==
    \/ Tick
    \/ \E m \in Managers : ManagerEnableRollback(m)
    \/ \E m \in Managers : ManagerCopyBackup(m)
    \/ \E m \in Managers : ManagerCleanup(m)

IsolationSpec == IsolationInit /\ [][IsolationNext]_vars

\* ========================================================================
\* BatchWizardOrchestrator (batch_wizard_orchestrator.py): run_wizard and
\* its step functions. The dialog on screen is the step of the top frame
\* of wiz_stack; a frame names the function that called the step.
\* ========================================================================
Frame(caller, step) == [caller |-> caller, step |-> step]

Top(stack) == stack[Len(stack)]

Pop(stack) == SubSeq(stack, 1, Len(stack) - 1)

\* the dialog the user sees
Dialog == IF wiz_stack = <<>> THEN "none" ELSE Top(wiz_stack).step

\* the audio files a scan finds
AudioFiles == 1..NumAudioFiles

\* the VerificationResult stored for an analysed file
VerificationResult(f, within) == [file |-> f, within_tolerance |-> within]

\* AnalysisProgressDialog.get_results: analysis_results is the empty dict of
\* the constructor until _on_finished stores the results of the worker
get_results(finished, results) == IF finished THEN results ELSE {}

\* the update of the scan results after the analysis: an audio file whose
\* result is within tolerance needs no processing, unless
\* force_audio_transcode is set
UpdateNeedsProcessing(needs, results, force) ==
    IF force THEN needs
    ELSE needs \ {r.file : r \in {x \in results : x.within_tolerance}}

\* audio_files of _run_analysis_step is not empty
HasAudioFiles(scan) == scan = "with_audio"

\* validate_scan_results: len(scan_results) > 0
validate_scan_results(scan) == scan # "empty"

\* what a scan can find: a video only when process_video, an audio only when
\* process_audio
ScanOutcomes(audio, video) ==
    {"empty"} \cup (IF video THEN {"video_only"} ELSE {})
              \cup (IF audio THEN {"with_audio"} ELSE {})

\* run_wizard after _run_scan_step returned True: the analysis step is called
\* when verify_normalization and process_audio are set, and returns True at
\* once without audio files; then the selection step
AfterScanStep(audio, verify, scan) ==
    IF verify /\ audio /\ HasAudioFiles(scan)
    THEN <<Frame("run_wizard", "analysis")>>
    ELSE <<Frame("run_wizard", "selection")>>

\* _run_selection_step after Back, once the scan results are there: the
\* analysis is repeated only without cached analysis results, then the
\* Selection dialog is shown again
AfterSelectionScan(rest, audio, verify, scan, analysis) ==
    IF verify /\ audio /\ analysis = {} /\ HasAudioFiles(scan)
    THEN Append(rest, Frame("selection", "analysis"))
    ELSE rest

\* the caller goes on after a step returned True
Resume(stack, audio, verify, scan, analysis) ==
    LET f == Top(stack)
        rest == Pop(stack)
    IN  CASE f.caller = "rules" -> rest
          [] f.caller = "preflight" -> rest
          [] f.caller = "selection" /\ f.step = "preflight" ->
                IF ~validate_scan_results(scan)
                THEN Append(rest, Frame("selection", "scan"))
                ELSE AfterSelectionScan(rest, audio, verify, scan, analysis)
          [] f.caller = "selection" /\ f.step = "scan" ->
                AfterSelectionScan(rest, audio, verify, scan, analysis)
          [] f.caller = "selection" /\ f.step = "analysis" -> rest
          [] f.caller = "run_wizard" /\ f.step = "goals" -> <<Frame("run_wizard", "rules")>>
          [] f.caller = "run_wizard" /\ f.step = "rules" -> <<Frame("run_wizard", "preflight")>>
          [] f.caller = "run_wizard" /\ f.step = "preflight" -> <<Frame("run_wizard", "scan")>>
          [] f.caller = "run_wizard" /\ f.step = "scan" -> AfterScanStep(audio, verify, scan)
          [] f.caller = "run_wizard" /\ f.step = "analysis" -> <<Frame("run_wizard", "selection")>>
          [] f.caller = "run_wizard" /\ f.step = "selection" -> <<>>

\* a step function returns True: its caller continues; run_wizard returns
\* self.state after the selection step
StepReturnsTrue(audio, verify, scan, analysis) ==
    LET next == Resume(wiz_stack, audio, verify, scan, analysis)
    IN  /\ wiz_stack' = next
        /\ wiz_return' = IF next = <<>> THEN "state" ELSE wiz_return

\* a step function returns False: every caller returns False in turn and
\* run_wizard returns None
StepReturnsFalse ==
    /\ wiz_stack' = <<>>
    /\ wiz_return' = "None"

\* run_wizard up to the first dialog (the cache is pruned first, see
\* LoudnessCache below; a failure there is logged)
RunWizard ==
    /\ wiz_return = "not_called"
    /\ wiz_return' = "running"
    /\ wiz_stack' = <<Frame("run_wizard", "goals")>>
    /\ UNCHANGED <<workerVars, rbVars, orchVars, isoVars, cacheVars, itemVars, anVars, wizStateVars, wizHistVars>>

\* Goals dialog, Next: at least one media type must be checked
GoalsNext(audio, video) ==
    /\ Dialog = "goals"
    /\ audio \/ video
    /\ process_audio' = audio
    /\ process_video' = video
    /\ completed' = completed \cup {"goals"}
    /\ StepReturnsTrue(audio, verify_normalization, scan_results, analysis_results)
    /\ UNCHANGED <<workerVars, rbVars, orchVars, isoVars, cacheVars, itemVars, anVars, verify_normalization,
                   scan_results, analysis_results, cancelled_at>>

\* Rules dialog, Next: verify_normalization and force_audio_transcode are
\* taken from the dialog only when audio is processed
RulesNext(verify, force) ==
    /\ Dialog = "rules"
    /\ verify_normalization' = IF process_audio THEN verify ELSE verify_normalization
    /\ force_audio_transcode' = IF process_audio THEN force ELSE force_audio_transcode
    /\ completed' = completed \cup {"rules"}
    /\ StepReturnsTrue(process_audio, verify_normalization', scan_results, analysis_results)
    /\ UNCHANGED <<workerVars, rbVars, orchVars, isoVars, cacheVars, itemVars,
                   anWorkerVars, needs_processing, process_audio, process_video,
                   scan_results, analysis_results, cancelled_at>>

\* Preflight and Selection dialogs, Next
PlainNext(step) ==
    /\ step \in {"preflight", "selection"}
    /\ Dialog = step
    /\ completed' = completed \cup {step}
    /\ StepReturnsTrue(process_audio, verify_normalization, scan_results, analysis_results)
    /\ UNCHANGED <<workerVars, rbVars, orchVars, isoVars, cacheVars, itemVars, anVars, wizStateVars, cancelled_at>>

\* Back in the Rules, Preflight or Selection dialog: the step before is run
\* from inside the step
Back(step) ==
    /\ Dialog = step
    /\ \/ step = "rules" /\ wiz_stack' = Append(wiz_stack, Frame("rules", "goals"))
       \/ step = "preflight" /\ wiz_stack' = Append(wiz_stack, Frame("preflight", "rules"))
       \/ step = "selection" /\ wiz_stack' = Append(wiz_stack, Frame("selection", "preflight"))
    /\ UNCHANGED <<workerVars, rbVars, orchVars, isoVars, cacheVars, itemVars, anVars, wizStateVars, wiz_return, wizHistVars>>

\* Cancel (reject without went_back) in Goals, Rules, Preflight or Selection
Cancel(step) ==
    /\ step \in {"goals", "rules", "preflight", "selection"}
    /\ Dialog = step
    /\ cancelled_at' = step
    /\ StepReturnsFalse
    /\ UNCHANGED <<workerVars, rbVars, orchVars, isoVars, cacheVars, itemVars, anVars, wizStateVars, completed>>

\* the scan finished: without results the step returns False after the
\* "No Files Found" box; every audio file found has needs_processing set
\* when force_audio_transcode is, and else as its format demands
ScanFinished(results, needs) ==
    /\ Dialog = "scan"
    /\ results \in ScanOutcomes(process_audio, process_video)
    /\ needs \subseteq AudioFiles
    /\ results # "with_audio" => needs = {}
    /\ (results = "with_audio" /\ force_audio_transcode) => needs = AudioFiles
    /\ scan_results' = results
    /\ needs_processing' = needs
    /\ IF validate_scan_results(results)
       THEN /\ completed' = completed \cup {"scan"}
            /\ StepReturnsTrue(process_audio, verify_normalization, results, analysis_results)
       ELSE /\ completed' = completed
            /\ StepReturnsFalse
    /\ UNCHANGED <<workerVars, rbVars, orchVars, isoVars, cacheVars, itemVars,
                   anWorkerVars, force_audio_transcode, process_audio, process_video,
                   verify_normalization, analysis_results, cancelled_at>>

\* the scan was cancelled by the user (aborted) or ended with an error
ScanRejected(aborted) ==
    /\ Dialog = "scan"
    /\ cancelled_at' = IF aborted THEN "scan" ELSE cancelled_at
    /\ StepReturnsFalse
    /\ UNCHANGED <<workerVars, rbVars, orchVars, isoVars, cacheVars, itemVars, anVars, wizStateVars, completed>>

\* AnalysisProgressDialog.__init__: the worker is created and started
StartAnalysis ==
    /\ Dialog = "analysis"
    /\ analysis_pc \notin {"running", "finished", "aborted"}
    /\ analysis_pc' = "running"
    /\ analysis_i' = 1
    /\ worker_results' = {}
    /\ analysis_abort_requested' = FALSE
    /\ UNCHANGED <<workerVars, rbVars, orchVars, isoVars, cacheVars, itemVars,
                   needs_processing, force_audio_transcode, wizVars>>

\* AnalysisWorker.run, one pass of the loop over audio_files: past the last
\* file finished is emitted with _results; an abort request seen at the top
\* of an iteration emits aborted; else the file is analysed and its result
\* stored, or the analysis raises and the loop goes on
AnalysisWorkerStep ==
    /\ Dialog = "analysis"
    /\ analysis_pc = "running"
    /\ IF analysis_i > NumAudioFiles
       THEN analysis_pc' = "finished" /\ UNCHANGED <<analysis_i, worker_results>>
       ELSE IF analysis_abort_requested
       THEN analysis_pc' = "aborted" /\ UNCHANGED <<analysis_i, worker_results>>
       ELSE \E how \in {"within", "outside", "raises"} :
               /\ worker_results' =
                     IF how = "raises" THEN worker_results
                     ELSE worker_results \cup {VerificationResult(analysis_i, how = "within")}
               /\ analysis_i' = analysis_i + 1
               /\ UNCHANGED analysis_pc
    /\ UNCHANGED <<workerVars, rbVars, orchVars, isoVars, cacheVars, itemVars,
                   analysis_abort_requested, needs_processing, force_audio_transcode,
                   wizVars>>

\* Cancel in the analysis dialog, confirmed: worker.abort()
AnalysisCancel ==
    /\ Dialog = "analysis"
    /\ analysis_pc \in {"running", "finished"}
    /\ ~analysis_abort_requested
    /\ analysis_abort_requested' = TRUE
    /\ UNCHANGED <<workerVars, rbVars, orchVars, isoVars, cacheVars, itemVars,
                   analysis_pc, analysis_i, worker_results, needs_processing,
                   force_audio_transcode, wizVars>>

\* the worker emitted finished: _on_finished stores the results and accepts
\* the dialog; the step stores them in the state, updates the scan results
\* and returns True
AnalysisFinished ==
    /\ Dialog = "analysis"
    /\ analysis_pc = "finished"
    /\ LET got == get_results(TRUE, worker_results)
       IN  /\ analysis_results' = got
           /\ needs_processing' =
                 UpdateNeedsProcessing(needs_processing, got, force_audio_transcode)
           /\ StepReturnsTrue(process_audio, verify_normalization, scan_results, got)
    /\ analysis_pc' = "accepted"
    /\ completed' = completed \cup {"analysis"}
    /\ UNCHANGED <<workerVars, rbVars, orchVars, isoVars, cacheVars, itemVars,
                   analysis_i, worker_results, analysis_abort_requested,
                   force_audio_transcode, process_audio, process_video,
                   verify_normalization, scan_results, cancelled_at>>

\* the worker emitted aborted: _on_aborted sets _analysis_aborted and rejects
\* the dialog; the step stores dialog.get_results() in the state, updates the
\* scan results from it and returns True
AnalysisAborted ==
    /\ Dialog = "analysis"
    /\ analysis_pc = "aborted"
    /\ LET got == get_results(FALSE, worker_results)
       IN  /\ analysis_results' = got
           /\ needs_processing' =
                 UpdateNeedsProcessing(needs_processing, got, force_audio_transcode)
           /\ StepReturnsTrue(process_audio, verify_normalization, scan_results, got)
    /\ analysis_pc' = "cancelled"
    /\ cancelled_at' = "analysis"
    /\ UNCHANGED <<workerVars, rbVars, orchVars, isoVars, cacheVars, itemVars,
                   analysis_i, worker_results, analysis_abort_requested,
                   force_audio_transcode, process_audio, process_video,
                   verify_normalization, scan_results, completed>>

\* the analysis dialog was closed without an abort of the worker
AnalysisRejected ==
    /\ Dialog = "analysis"
    /\ analysis_pc = "running"
    /\ analysis_pc' = "rejected"
    /\ cancelled_at' = "analysis"
    /\ StepReturnsFalse
    /\ UNCHANGED <<workerVars, rbVars, orchVars, isoVars, cacheVars, itemVars,
                   analysis_i, worker_results, analysis_abort_requested,
                   needs_processing, force_audio_transcode, wizStateVars, completed>>

WizardInit ==
    /\ Init
    /\ song_id = [c \in Candidates |-> 1]
    /\ selected = [c \in Candidates |-> TRUE]
    /\ on_video_success = FALSE

WizardNext ==
    \/ RunWizard
    \/ \E audio, video \in BOOLEAN : GoalsNext(audio, video)
    \/ \E verify, force \in BOOLEAN : RulesNext(verify, force)
    \/ \E step \in {"preflight", "selection"} : PlainNext(step)
    \/ \E step \in {"rules", "preflight", "selection"} : Back(step)
    \/ \E step \in {"goals", "rules", "preflight", "selection"} : Cancel(step)
    \/ \E results \in {"empty", "video_only", "with_audio"}, needs \in SUBSET AudioFiles :
          ScanFinished(results, needs)
    \/ \E aborted \in BOOLEAN : ScanRejected(aborted)
    \/ StartAnalysis
    \/ AnalysisWorkerStep
    \/ AnalysisCancel
    \/ AnalysisFinished
    \/ AnalysisAborted
    \/ AnalysisRejected

WizardSpec == WizardInit /\ [][WizardNext]_vars

\* ========================================================================
\* LoudnessCache.prune_orphans (loudness_cache.py)
\* ========================================================================
\* song_id IS NULL
NullSongId == 0

CachePaths == 1..NumCachePaths

\* the rows of loudnorm_analysis, by path and song_id (rows of one path differ
\* in their settings hash)
CacheRows == [path : CachePaths, song_id : SongIds \cup {NullSongId}]

\* DELETE FROM loudnorm_analysis WHERE song_id IS NOT NULL AND song_id NOT IN
\* (valid ids), executed only if valid_song_ids is not empty
DeleteUnknownSongs(rows, valid) ==
    IF valid # {}
    THEN {r \in rows : ~(r.song_id # NullSongId /\ r.song_id \notin valid)}
    ELSE rows

\* DELETE FROM loudnorm_analysis WHERE path = ?, for every distinct path of
\* the table that does not exist
DeleteMissingFiles(rows, existing) ==
    LET paths_to_check == {r.path : r \in rows}
        missing == {path \in paths_to_check : path \notin existing}
    IN  {r \in rows : r.path \notin missing}

\* prune_orphans: both deletions and the commit; returns True
PruneOrphans ==
    /\ prune_result = "not_called"
    /\ loudnorm_analysis' =
           DeleteMissingFiles(DeleteUnknownSongs(loudnorm_analysis, valid_song_ids), existing_paths)
    /\ prune_result' = "True"
    /\ UNCHANGED <<workerVars, rbVars, orchVars, isoVars, wizVars, itemVars, anVars, valid_song_ids,
                   existing_paths, rows_before>>

\* prune_orphans when the songs cannot be enumerated or an exception is
\* raised before the first deletion: a warning is logged, returns False
PruneOrphansSkipped ==
    /\ prune_result = "not_called"
    /\ prune_result' = "False"
    /\ UNCHANGED <<workerVars, rbVars, orchVars, isoVars, wizVars, itemVars, anVars, loudnorm_analysis,
                   valid_song_ids, existing_paths, rows_before>>

CacheInit ==
    /\ WorkerInit
    /\ song_id = [c \in Candidates |-> 1]
    /\ selected = [c \in Candidates |-> TRUE]
    /\ on_video_success = FALSE
    /\ RollbackIdle
    /\ same_path = [c \in Candidates |-> TRUE]
    /\ backup_original = FALSE
    /\ output_path = [c \in Candidates |-> NoPath]
    /\ bi = 1
    /\ fs = FilesBeforeRun({})
    /\ dir_exists = FALSE
    /\ OrchestratorIdle
    /\ rollback_enabled = FALSE
    /\ had_user_backup = {}
    /\ IsolationIdle
    /\ WizardIdle
    /\ ItemIdle
    /\ AnalysisIdle
    /\ loudnorm_analysis \in SUBSET CacheRows
    /\ valid_song_ids \in SUBSET SongIds
    /\ existing_paths \in SUBSET CachePaths
    /\ prune_result = "not_called"
    /\ rows_before = loudnorm_analysis

CacheNext ==
    \/ PruneOrphans
    \/ PruneOrphansSkipped

CacheSpec == CacheInit /\ [][CacheNext]_vars

\* ========================================================================
\* Properties
\* ========================================================================

\* processing of candidate c has ended (its finally block has been reached)
ItemDone(c) == c < i \/ (c = i /\ pc \in {"clear_item", "reset_current"})

\* an abort was observed during the run
AbortObserved == abortPoint # 0 \/ \E c \in Candidates : outcome[c] = "aborted"

\* the status candidate k must have after the abort step
MarkedStatus(k) == IF selected[k] THEN "aborted" ELSE "skipped"

\* C1: when run() has returned, and from the moment batch_completed is
\* emitted, every candidate has one of the statuses success, failed, aborted,
\* skipped; none is pending or transcoding.
C1_AllFinalWhenWorkerReturns ==
    (pc = "done" \/ batch_completed > 0) =>
        \A c \in Candidates : status[c] \in FinalStatuses

C1_Witness ==
    /\ pc = "done"
    /\ batch_aborted = 1
    /\ status[1] = "success"
    /\ status[2] = "aborted"
    /\ status[3] = "skipped"

\* C2 (as claimed): once a candidate has one of the statuses success, failed,
\* aborted, skipped, no later step gives it another status, except that a
\* rollback may turn success into rolled_back.
C2_StatusSetOnce ==
    [][\A c \in Candidates :
          status[c] \in FinalStatuses =>
              \/ status'[c] = status[c]
              \/ status[c] = "success" /\ status'[c] = "rolled_back"]_vars

\* C3 (as claimed): when the run has returned exactly one batch signal was
\* emitted, batch_aborted iff an abort was observed and batch_completed iff
\* none was.
C3_ExactlyOneSignalIffAbort ==
    pc = "done" =>
        /\ batch_aborted + batch_completed = 1
        /\ (batch_aborted = 1) <=> AbortObserved
        /\ (batch_completed = 1) <=> ~AbortObserved

\* C4: the step that emits batch_aborted at the check for candidate i leaves
\* every candidate before i as it was and gives every candidate from i on the
\* status aborted (selected) or skipped (unselected); candidate i was pending,
\* and it never enters transcoding afterwards.
C4_AbortPointMarking ==
    /\ [][batch_aborted' # batch_aborted =>
            /\ abortPoint' = i
            /\ status[i] = "pending"
            /\ \A k \in Candidates :
                  IF k < i THEN status'[k] = status[k]
                           ELSE status'[k] = MarkedStatus(k)]_vars
    /\ [](abortPoint # 0 =>
            \A k \in Candidates :
                k >= abortPoint => status[k] = MarkedStatus(k) /\ outcome[k] = "none")

C4_Witness ==
    /\ abortPoint = 2
    /\ batch_aborted = 1
    /\ status[1] = "failed"
    /\ status[2] = "aborted"
    /\ status[3] = "skipped"
    /\ jobAbortSeen
    /\ abortCalls = 0
    /\ pc = "done"

\* C5 (as claimed): once the encode of a candidate has returned aborted, the
\* candidate is aborted, no later candidate is started, and when the run has
\* returned every later candidate is aborted (selected) or skipped (unselected).
C5_EncodeAbortStopsBatch ==
    \A c \in Candidates :
        outcome[c] = "aborted" =>
            /\ status[c] = "aborted"
            /\ \A k \in Candidates :
                  k > c => /\ status[k] \notin {"transcoding", "success", "failed"}
                           /\ pc = "done" => status[k] = MarkedStatus(k)

\* C6: a candidate whose encode returned a failure, or whose processing raised,
\* ends failed with an error text, and the run goes on: with no abort at all,
\* the run ends with batch_completed and every selected candidate processed.
C6_FailureNeverStopsRun ==
    /\ \A c \in Candidates :
          (ItemDone(c) /\ outcome[c] \in {"failed", "raised", "callback_raised"}) =>
              status[c] = "failed" /\ error_message[c] # "None"
    /\ (pc = "done" /\ abortCalls = 0 /\ ~jobAbortSeen) =>
          /\ batch_completed = 1
          /\ batch_aborted = 0
          /\ \A c \in Candidates :
                selected[c] => status[c] \in {"success", "failed"} /\ outcome[c] # "none"

C6_Witness ==
    /\ pc = "done"
    /\ abortCalls = 0
    /\ ~jobAbortSeen
    /\ batch_completed = 1
    /\ status[1] = "success"
    /\ status[2] = "failed"
    /\ outcome[2] = "failed"
    /\ error_message[2] = "result.error_message"
    /\ status[3] = "success"

\* C7: a candidate whose registry flag was seen set at a poll of its encode
\* is never failed and never success: it stays transcoding until the result is
\* interpreted and is aborted from then on.
C7_MidEncodeAbortEndsAborted ==
    \A c \in Candidates :
        flagAtPoll[c] =>
            /\ status[c] \in {"transcoding", "aborted"}
            /\ ItemDone(c) => status[c] = "aborted"

C7_Witness ==
    \E c \in Candidates :
        /\ flagAtPoll[c]
        /\ abortActive = c
        /\ song_id[c] \in abortSetIds
        /\ outcome[c] = "aborted"
        /\ status[c] = "aborted"
        /\ pc = "done"

\* C8 (as claimed): an abort() call begun while candidate c was the active
\* item has, when it returns, set the registry flag of c, and c ends aborted.
C8_AbortFlagsActiveItem ==
    \A c \in Candidates :
        (abortActive = c /\ pcA = "idle") =>
            /\ song_id[c] \in abortSetIds
            /\ ItemDone(c) => status[c] = "aborted"

\* C9 (as claimed): once run() has returned and no abort() call is in
\* progress, the registry holds no flag.
C9_NoDanglingFlag ==
    (pc = "done" /\ pcA = "idle") => DOMAIN abort_flags = {}

\* key k has the same flag before and after the step
SameFlag(k) ==
    /\ (k \in DOMAIN abort_flags') = (k \in DOMAIN abort_flags)
    /\ k \in DOMAIN abort_flags => abort_flags'[k] = abort_flags[k]

\* C10: every registry method acts as one atomic map operation: set_abort sets
\* the flag of its key and changes nothing when it is already set, is_aborted
\* leaves the registry alone and returns TRUE exactly when the key was set and
\* not cleared since, clear removes the flag of its key only, clear_all empties
\* the registry; no other step changes the registry.
C10_RegistryAtomicMap ==
    [][/\ \A t \in Threads :
            (flags_lock = t /\ flags_lock' = NoThread) =>
                LET op == regOp[t][1]
                    id == regOp[t][2]
                IN  /\ op = "set_abort" =>
                          /\ registry_is_aborted(abort_flags', id)
                          /\ registry_is_aborted(abort_flags, id) =>
                                abort_flags' = abort_flags
                          /\ \A k \in Keys \ {id} : SameFlag(k)
                    /\ op = "is_aborted" =>
                          /\ abort_flags' = abort_flags
                          /\ regRet' = IsSetMark(lastMut[id])
                    /\ op = "clear" =>
                          /\ id \notin DOMAIN abort_flags'
                          /\ \A k \in Keys \ {id} : SameFlag(k)
                    /\ op = "clear_all" => DOMAIN abort_flags' = {}
       /\ flags_lock' # NoThread => abort_flags' = abort_flags]_vars

C10_Witness ==
    /\ lastMut[1] = "set_again"
    /\ lastMut[2] = "cleared"
    /\ DOMAIN abort_flags = {1}
    /\ regRet = TRUE
    /\ regOp[1] = <<"idle", NoSong>>
    /\ regOp[2] = <<"idle", NoSong>>

\* C11: processing is sequential and in input order: at every moment at most
\* one candidate has status transcoding, and a candidate enters transcoding
\* only when every selected candidate before it in the list has one of the
\* final statuses.
C11_SequentialInOrder ==
    /\ [](Cardinality({c \in Candidates : status[c] = "transcoding"}) <= 1)
    /\ [][\A j \in Candidates :
              (status[j] # "transcoding" /\ status'[j] = "transcoding") =>
                  \A k \in 1..(j - 1) :
                      selected[k] => status[k] \in FinalStatuses]_vars

C11_Witness ==
    /\ status[1] = "failed"
    /\ ~selected[2]
    /\ status[2] = "skipped"
    /\ status[3] = "transcoding"
    /\ pc = "poll"

\* the positions of the entries in the reverse of their recording order
ReversedPositions == [j \in 1..Len(entries) |-> Len(entries) - j + 1]

\* the song ids of the entries counted as restored, in the order of the visits
RestoredIds ==
    LET sel == SelectSeq(ReversedPositions, LAMBDA pos : pos \in restored)
    IN  [j \in 1..Len(sel) |-> entries[sel[j]].song_id]

\* C12: rollback_all visits the entries in exactly the reverse of the order
\* in which they were recorded, and when it has returned every entry has been
\* visited exactly once.
C12_ReverseOrder ==
    /\ \A j \in 1..Len(attempts) : attempts[j] = ReversedPositions[j]
    /\ rb_pc = "returned" => Len(attempts) = Len(entries)

C12_Witness ==
    /\ rb_pc = "returned"
    /\ Len(entries) = 3
    /\ attempts = <<3, 2, 1>>
    /\ restored = {1, 3}

\* C17: rollback is best effort per entry: when rollback_all has returned
\* every entry was visited whatever failed before it, success + failed is the
\* number of entries, and the returned ids are those of the restored entries.
C17_BestEffortTally ==
    rb_pc = "returned" =>
        /\ Len(attempts) = Len(entries)
        /\ rb_success + rb_failed = Len(entries)
        /\ rb_success = Cardinality(restored)
        /\ successful_ids = RestoredIds

C17_Witness ==
    /\ rb_pc = "returned"
    /\ Len(entries) = 3
    /\ rb_failed = 2
    /\ restored = {1}
    /\ rmtree_result = "logged"
    /\ fs[entries[3].rollback_backup_path] = NoFile
    /\ fs[entries[2].rollback_backup_path] # NoFile

\* C18 (as claimed): after rollback_all has returned the temp directory does
\* not exist, however many entries failed to restore.
C18_TempDirGone ==
    rb_pc = "returned" => ~dir_exists

\* C18 (amended): after rollback_all has returned the removal of the temp
\* directory has been attempted, however many entries failed to restore, and
\* the directory exists only if that removal itself failed.
C18_TempDirGoneUnlessRmtreeFailed ==
    rb_pc = "returned" => (dir_exists => rmtree_result = "logged")

C18_Witness ==
    /\ rb_pc = "returned"
    /\ Len(entries) = 3
    /\ rb_failed = 3
    /\ rmtree_result = "removed"
    /\ ~dir_exists

\* a step that is a call of cleanup_rollback_data
CleanupStep ==
    /\ last_op' = "cleanup_rollback_data"
    /\ UNCHANGED <<i, output_path>>

\* the call repeats a cleanup: the last method called was cleanup_rollback_data
\* or rollback_all, or enable_rollback was never called
RepeatedCleanup ==
    \/ last_op = "cleanup_rollback_data"
    \/ rb_pc = "returned"
    \/ rollback_dir = NoDir

\* C19 (as claimed): cleanup_rollback_data never raises, and a call that
\* follows a cleanup (or rollback_all, or precedes enable_rollback) leaves the
\* files, the directory and the manager as they were.
C19_CleanupIdempotent ==
    [][CleanupStep =>
          /\ rmtree_result' # "raised"
          /\ RepeatedCleanup => UNCHANGED <<fs, dir_exists, managerVars>>]_vars

\* C19 (amended): cleanup_rollback_data never raises, and a call that follows
\* a cleanup in which the removal of the directory did not fail leaves the
\* files, the directory and the manager as they were.
C19_CleanupIdempotentUnlessRmtreeFailed ==
    [][CleanupStep =>
          /\ rmtree_result' # "raised"
          /\ (RepeatedCleanup /\ rmtree_result # "logged") =>
                 UNCHANGED <<fs, dir_exists, managerVars>>]_vars

C19_Witness ==
    /\ rb_pc = "idle"
    /\ last_op = "cleanup_rollback_data"
    /\ rmtree_result = "none"
    /\ rollback_dir # NoDir
    /\ ~dir_exists
    /\ Len(entries) >= 1

\* the candidate an entry was recorded for
CandidateOf(e) == e.original_path[2]

\* _handle_abort has returned after the user confirmed the rollback
RollbackConfirmedAndDone ==
    opc = "end" /\ rollback_reply = "Yes" /\ rb_pc = "returned"

PreservationApplied ==
    opc = "cleanup" /\ batch_completed = 1 /\ rollback_manager

ProtectedRunEnded == opc = "end" /\ rollback_manager

\* C21 (as claimed): whenever a rollback-protected run ends (completed,
\* aborted with the rollback confirmed or declined, aborted before any entry
\* was recorded) the temp directory with its rollback backups has been removed
\* by the time _execute_batch returns.
C21_RollbackStateCleanedUp ==
    ProtectedRunEnded =>
        /\ ~dir_exists
        /\ \A path \in Paths : InTempDir(path) => fs[path] = NoFile

\* the backup phase ended without success: it failed and the user declined to
\* continue, or it was cancelled
BackupPhaseFailed == bpc = "handled" /\ ~backup_success

\* C22: if the backup phase fails and the user declines to continue, or the
\* phase is cancelled, the batch worker is never started, no encode is invoked
\* and every candidate keeps status pending.
C22_FailClosedPreflight ==
    BackupPhaseFailed =>
        /\ opc \in {"backup", "end"}
        /\ pc = "connect"
        /\ \A c \in Candidates :
              /\ status[c] = "pending"
              /\ outcome[c] = "none"
              /\ result[c] = "None"
              /\ fs[video_path(c)] = <<c, "orig">>

\* the copy of the second selected file failed after the first was copied, the
\* user declined to continue and _execute_batch has returned
C22_Witness ==
    /\ BackupPhaseFailed
    /\ opc = "end"
    /\ ~backup_abort_requested
    /\ \E c \in Candidates : selected[c] /\ c < bi /\ bi <= NumCandidates

\* the backup worker stopped at a failing copy and the user chose to continue
BackupFailedAndContinued ==
    bpc = "handled" /\ backup_success /\ bi <= NumCandidates

ScenarioB ==
    /\ RollbackConfirmedAndDone
    /\ bpc = "handled"
    /\ bi > NumCandidates
    /\ selected[1]
    /\ selected[2]
    /\ outcome[1] = "success"
    /\ abortActive = 2
    /\ outcome[2] = "aborted"

\* the entry of candidate 1 was restored by rollback_all
Item1Restored == \E k \in restored : CandidateOf(entries[k]) = 1

TempDirGone ==
    /\ ~dir_exists
    /\ \A path \in Paths : InTempDir(path) => fs[path] = NoFile

Finalizing == opc \in {"finalize", "rollback", "cleanup"}

\* run() is not executing: it has returned or was never entered
WorkerNotRunning == pc \in {"done", "connect"} /\ current_song_id = NoSong

C27_IsolatedTempDirs ==
    \A m, n \in Managers :
        (m # n /\ rollback_dirs[m] # NoTimestamp /\ rollback_dirs[n] # NoTimestamp)
            => rollback_dirs[m] # rollback_dirs[n]

\* the steps run_wizard has to complete under the settings it returns
RequiredSteps ==
    {"goals", "rules", "preflight", "scan", "selection"}
        \cup (IF verify_normalization /\ process_audio /\ HasAudioFiles(scan_results)
              THEN {"analysis"} ELSE {})

\* C28: run_wizard returns the wizard state only if every step of Goals,
\* Rules, Preflight, Scan, Analysis (when verify_normalization and
\* process_audio are set) and Selection was completed, and returns None
\* whenever the user cancelled at a step, whatever the navigation before.
C28_StateOnlyAfterEveryStep ==
    /\ wiz_return = "state" => (RequiredSteps \subseteq completed /\ cancelled_at = "none")
    /\ (cancelled_at # "none" /\ wiz_stack = <<>>) => wiz_return = "None"

\* C29: prune_orphans removes every row whose song_id is not null and is not
\* the id of an existing song and every row whose file no longer exists, and
\* keeps every other row, rows with a null song_id included, for every set of
\* existing songs.
C29_PruneOrphans ==
    prune_result = "True" =>
        loudnorm_analysis =
            {r \in rows_before :
                /\ ~(r.song_id # NullSongId /\ r.song_id \notin valid_song_ids)
                /\ r.path \in existing_paths}

\* C30: a step of rollback_all that restores an entry leaves at original_path
\* the bytes of the entry's rollback backup, whatever was there before, and
\* no file at new_output_path when that is another path; a step that finds
\* the rollback backup missing changes neither path; the later steps of
\* rollback_all leave the original paths of the restored entries alone.
C30_RestoreFileContents ==
    [][rb_pc = "loop" =>
        /\ \A pos \in restored' \ restored :
              LET e == entries[pos]
              IN  /\ fs[e.rollback_backup_path] # NoFile
                  /\ fs'[e.original_path] = fs[e.rollback_backup_path]
                  /\ e.new_output_path # e.original_path => fs'[e.new_output_path] = NoFile
        /\ (rb_k >= 1 /\ fs[entries[NextPosition(entries, rb_k)].rollback_backup_path] = NoFile)
              => LET e == entries[NextPosition(entries, rb_k)]
                 IN  /\ fs'[e.original_path] = fs[e.original_path]
                     /\ fs'[e.new_output_path] = fs[e.new_output_path]
        /\ \A pos \in restored :
              fs'[entries[pos].original_path] = fs[entries[pos].original_path]]_vars

\* rollback_all has restored an entry whose output had another name than the
\* original, and the entry it visits next has no rollback backup
C30_Witness ==
    /\ rb_pc = "loop"
    /\ \E pos \in restored :
          /\ entries[pos].new_output_path # entries[pos].original_path
          /\ fs[entries[pos].original_path] = fs[entries[pos].rollback_backup_path]
          /\ fs[entries[pos].new_output_path] = NoFile
    /\ rb_k >= 1
    /\ fs[entries[NextPosition(entries, rb_k)].rollback_backup_path] = NoFile

\* the worker is inside the loop body of the candidate i, between the
\* transition to transcoding and the end of the finally block
InsideItem ==
    pc \in {"set_current", "get_song", "process_video", "poll", "readline",
            "interpret", "callback", "except", "clear_item", "reset_current"}

\* C31: an unselected candidate is never encoded: it never has the status
\* transcoding, the worker is never inside the loop body for it, neither
\* process_video nor the success callback is called for it, neither
\* video_started nor video_completed is emitted for it, and when the run has
\* returned its status is skipped.
C31_UnselectedNeverEncoded ==
    \A c \in Candidates :
        ~selected[c] =>
            /\ status[c] \in {"pending", "skipped"}
            /\ InsideItem => i # c
            /\ outcome[c] = "none"
            /\ result[c] = "None"
            /\ callback_calls[c] = 0
            /\ video_started[c] = 0
            /\ video_completed[c] = 0
            /\ pc = "done" => status[c] = "skipped"

\* a run that returned after it passed an unselected candidate in the loop and
\* encoded a selected one after it
C31_Witness ==
    /\ pc = "done"
    /\ batch_completed = 1
    /\ \E c, d \in Candidates :
          /\ c < d
          /\ ~selected[c]
          /\ status[c] = "skipped"
          /\ selected[d]
          /\ video_started[d] = 1
          /\ video_completed[d] = 1
          /\ callback_calls[d] = 1

\* C32: when the worker has emitted batch_completed in a rollback-protected
\* run, the orchestrator finalizes the run as a success (preservation rule,
\* then cleanup_rollback_data) and never as an aborted one (no rollback
\* question, no rollback_all), whenever the owner thread's Cancel came.
C32_CompletedRunFinalizedAsSuccess ==
    (batch_completed >= 1 /\ rollback_manager) =>
        /\ rollback_reply = "none"
        /\ opc # "rollback"
        /\ opc = "end" => last_op = "cleanup_rollback_data"

\* the backup phase ran to its end: every iteration of the backup worker was
\* made and finished was handled without a cancel request
BackupPhaseCompleted == bpc = "handled" /\ backup_success /\ bi > NumCandidates

\* the entries recorded for the media file of the candidate c
EntriesOf(c) == {k \in 1..Len(entries) : entries[k].original_path = video_path(c)}

C34_CancelledBackupNeverStartsBatch ==
    backup_abort_requested => opc \notin {"run", "rollback", "finalize"}

\* C35: with a success callback passed to the worker, the callback is called
\* once for each candidate whose encode returned success and never for a
\* candidate whose encode failed, was aborted or raised; when it is called
\* the candidate's result is already stored and the candidate's
\* video_completed signal has not been emitted yet, and the signal is never
\* emitted for a success before the callback was made.
C35_CallbackOncePerSuccess ==
    on_video_success =>
        \A c \in Candidates :
            /\ callback_calls[c] \in {0, 1}
            /\ callback_calls[c] = 1 => result[c] = "success"
            /\ outcome[c] \in {"failed", "aborted", "raised"} => callback_calls[c] = 0
            /\ (result[c] = "success" /\ ~(pc = "callback" /\ i = c))
                   => callback_calls[c] = 1
            /\ (pc = "callback" /\ i = c)
                   => /\ result[c] = "success"
                      /\ callback_calls[c] = 0
                      /\ video_completed[c] = 0
            /\ (video_completed[c] > 0 /\ result[c] = "success")
                   => callback_calls[c] = 1

\* a returned run in which one candidate's encode succeeded and had its
\* callback and its signal, and another candidate's encode failed or raised
\* and had the signal without a callback
C35_Witness ==
    /\ on_video_success
    /\ pc = "done"
    /\ \E c, d \in Candidates :
          /\ outcome[c] = "success"
          /\ callback_calls[c] = 1
          /\ video_completed[c] = 1
          /\ outcome[d] \in {"failed", "raised"}
          /\ callback_calls[d] = 0
          /\ video_completed[d] = 1

\* the bytes the media file of an entry held before the run
PreTranscodeBytes(e) == <<e.original_path[2], "orig">>

\* C36: rollback_all never destroys the last copy of an original: when it
\* returns, every entry whose rollback backup held the pre-transcode bytes
\* has them at original_path if it was restored, and otherwise still in its
\* rollback backup or at original_path.
C36_RollbackKeepsLastCopy ==
    [][(rb_pc = "loop" /\ rb_pc' = "returned") =>
        \A pos \in 1..Len(entries) :
            LET e == entries[pos]
                bytes == PreTranscodeBytes(e)
            IN  fs[e.rollback_backup_path] = bytes =>
                    IF pos \in restored
                    THEN fs'[e.original_path] = bytes
                    ELSE \/ fs'[e.rollback_backup_path] = bytes
                         \/ fs'[e.original_path] = bytes]_vars

\* C38: whenever the Selection dialog is shown, state.scan_results is a result
\* the scan can produce under the goal flags now in the state: no audio file
\* in it unless process_audio, no video file unless process_video.
C38_SelectionShowsScanOfCurrentFlags ==
    Dialog = "selection" => scan_results \in ScanOutcomes(process_audio, process_video)

\* C37: when the analysis is cancelled, the step that handles the abort goes
\* on to the Selection dialog with the partial results: state.analysis_results
\* holds the result of every file the worker completed before it saw the
\* cancel, and no such file within tolerance keeps needs_processing (unless
\* force_audio_transcode is set).
C37_CancelKeepsPartialResults ==
    [][(analysis_pc = "aborted" /\ analysis_pc' = "cancelled") =>
        /\ Dialog' = "selection"
        /\ worker_results \subseteq analysis_results'
        /\ \A r \in worker_results :
              (r.within_tolerance /\ ~force_audio_transcode)
                  => r.file \notin needs_processing']_vars

\* a signal of the backup worker has been emitted, or already handled
BackupSignalled == bpc \in {"finished", "error", "aborted", "handled"}

\* the steps of C39 that do not depend on the removal of the directory: the
\* worker ends with one signal and emits none after it, a cancel seen between
\* chunks leaves no backup file of the candidate being copied, and a phase
\* that was cancelled or declined ends with _execute_batch returning after
\* cleanup_rollback_data
BackupPhaseOutcome ==
    /\ (opc = "backup" /\ BackupSignalled) => bpc' \in {bpc, "handled"}
    /\ (opc = "backup" /\ bpc' = "handled" /\ bpc # "handled")
           => bpc \in {"finished", "error", "aborted"}
    /\ (bpc = "copying" /\ bpc' = "aborted")
           => fs'[get_rollback_backup_path(song_id[bi], video_path(bi))] = NoFile
    /\ (opc = "backup" /\ bpc = "handled" /\ ~backup_success /\ opc' # opc)
           => (opc' = "end" /\ last_op' = "cleanup_rollback_data")

\* C39 (as claimed): the backup-copy phase ends with exactly one of finished,
\* error and aborted; a cancel between chunks deletes the partial backup
\* file; after a cancelled or declined phase the temp directory is removed
\* when _execute_batch returns.
C39_BackupPhaseEndsClean ==
    [][/\ BackupPhaseOutcome
       /\ (opc = "backup" /\ opc' = "end")
              => (~dir_exists' /\ \A path \in Paths : InTempDir(path) => fs'[path] = NoFile)]_vars

\* C39 (amended): as claimed, but the temp directory is removed only if
\* shutil.rmtree did not fail; a failing removal is logged and the directory
\* stays.
C39_BackupPhaseEndsCleanUnlessRmtreeFailed ==
    [][/\ BackupPhaseOutcome
       /\ (opc = "backup" /\ opc' = "end" /\ rmtree_result' # "logged")
              => (~dir_exists' /\ \A path \in Paths : InTempDir(path) => fs'[path] = NoFile)]_vars

\* the phase was cancelled after at least one backup had been copied,
\* _execute_batch has returned and the temp directory is gone
C39_Witness ==
    /\ opc = "end"
    /\ bpc = "handled"
    /\ backup_abort_requested
    /\ ~backup_success
    /\ bi > 1
    /\ rmtree_result = "removed"
    /\ ~dir_exists
    /\ \A path \in Paths : InTempDir(path) => fs[path] = NoFile

====
